---- MODULE Spec2Model ----
(***************************************************************************)
(* Model of orchestrator.py: the gating engine (snapshot, diff, allowlist, *)
(* caps, deterministic revert), the step scheduler, the pipeline driver    *)
(* and the variant-selection policy.                                       *)
(*                                                                         *)
(* A workspace path is a sequence of path components.  A file content is   *)
(* a number: 0 is "no such file", 1 and 2 are well-formed contents, every  *)
(* other value is a content the content validators reject.  The VCS is     *)
(* modelled by its index (path -> content, 0 = not in the index), the tree *)
(* of HEAD and a commit counter.                                           *)
(***************************************************************************)
EXTENDS Integers, Sequences, FiniteSets, TLC

\* ------------------------------------------------------------------ bounds
\* Largest file content value an agent can write.
MaxContent == 3
\* Agent invocations of one run that do anything but "change nothing, exit 0".
MaxActs == 2
\* Attempts recorded in the stats bucket of the selector specification.
MaxTrials == 6
\* commit_window_runs and elim_min_trials of the policy the selector
\* specification runs under, small enough to be reached within MaxTrials.
SelCommitWindow == 2
SelElimMinTrials == 2
\* Attempts of the single variant in the commit specification: the release
\* rule looks at the mean-clean from the tenth attempt on.
MaxCommitTrials == 11
\* Attempts recorded in the round-robin specification: three bootstrap
\* attempts, the attempts that eliminate a variant, and two selections after.
MaxRrTrials == 7
MaxLines == 3
MaxProfiled == 2

\* --------------------------------------------------------------- constants
CODE_SUCCESS == 0
CODE_INVALID_ARGS == 2
CODE_PRECONDITION == 3
CODE_INVARIANT == 4
CODE_ALLOWLIST == 5
CODE_VALIDATION == 6
CODE_TEST_FAIL == 7
CODE_INTERNAL == 8

Absent == 0
Contents == 1..MaxContent

\* Contents 1 and 2 stand for two texts the validators accept, every other
\* content for a text they reject.
WellFormed == {1, 2}

REQUIREMENTS_MD == <<"REQUIREMENTS.md">>
ORCH_FILE == <<".orchestrator", "notes.md">>
PROMPT_FILE == <<"prompts", "qa", "v1.txt">>
\* The workspace paths the model follows.
Paths == {REQUIREMENTS_MD, ORCH_FILE, PROMPT_FILE}

\* A glob of an allowlist: a literal path, or base/** (tree = TRUE).
Lit(p) == [base |-> p, tree |-> FALSE]
Tree(p) == [base |-> p, tree |-> TRUE]

IsPrefix(s, t) == Len(s) <= Len(t) /\ SubSeq(t, 1, Len(s)) = s

path_matches_glob(path, pattern) ==
    IF pattern.tree
    THEN path = pattern.base \/ (Len(path) > Len(pattern.base) /\ IsPrefix(pattern.base, path))
    ELSE path = pattern.base

\* ------------------------------------------------------------ step catalog
StepSpec(name, allowlist) ==
    [name |-> name, allowlist |-> allowlist, prompt_agent |-> name,
     can_modify_agents_md |-> FALSE, can_modify_prompts |-> FALSE,
     can_modify_brief |-> FALSE, can_modify_brief_yaml |-> FALSE,
     max_changed_files |-> 60, max_total_bytes_changed |-> 500000,
     max_deleted_files |-> 0]

release_allow(design_b) ==
    {Lit(<<"REQUIREMENTS.md">>), Lit(<<"TEST.md">>), Lit(<<"AGENT_TASKS.md">>),
     Lit(<<"docker-compose.yml">>), Lit(<<".env.example">>), Lit(<<".gitignore">>),
     Tree(<<"design">>), Tree(<<"frontend">>), Tree(<<"backend">>), Tree(<<"tests">>),
     Lit(<<"PROJECT_BRIEF.md">>), Lit(<<"PROJECT_BRIEF.yaml">>)}
    \cup (IF design_b THEN {Lit(<<"AGENTS.md">>)} ELSE {})

\* The catalog with qa moved ahead of the frontend step.
default_steps_qa_early(design_b, backend_required) ==
    << StepSpec("release_engineer", release_allow(design_b)),
       StepSpec("requirements", {Lit(<<"REQUIREMENTS.md">>), Lit(<<"AGENT_TASKS.md">>)}),
       StepSpec("designer", {Tree(<<"design">>), Lit(<<"REQUIREMENTS.md">>)}),
       StepSpec("qa", {Tree(<<"tests">>), Lit(<<"TEST.md">>)}),
       StepSpec("frontend", {Tree(<<"frontend">>), Tree(<<"tests">>), Lit(<<"TEST.md">>)}) >>
    \o (IF backend_required THEN << StepSpec("backend", {Tree(<<"backend">>)}) >> ELSE << >>)
    \o << StepSpec("docs", {Lit(<<"REQUIREMENTS.md">>)}) >>

default_steps(design_b, backend_required) ==
    << [StepSpec("release_engineer", release_allow(design_b))
          EXCEPT !.can_modify_agents_md = design_b,
                 !.can_modify_brief = TRUE,
                 !.can_modify_brief_yaml = TRUE],
       StepSpec("requirements", {Lit(<<"REQUIREMENTS.md">>), Lit(<<"AGENT_TASKS.md">>)}),
       StepSpec("designer", {Tree(<<"design">>), Lit(<<"REQUIREMENTS.md">>)}),
       StepSpec("frontend", {Tree(<<"frontend">>), Tree(<<"tests">>), Lit(<<"TEST.md">>)}) >>
    \o (IF backend_required
        THEN << StepSpec("backend", {Tree(<<"backend">>), Tree(<<"tests">>), Lit(<<"TEST.md">>),
                                     Lit(<<".env.example">>), Lit(<<"docker-compose.yml">>)}) >>
        ELSE << >>)
    \o << StepSpec("qa", {Tree(<<"tests">>), Lit(<<"TEST.md">>)}),
          StepSpec("docs", {Lit(<<"REQUIREMENTS.md">>), Lit(<<"TEST.md">>), Lit(<<"AGENT_TASKS.md">>)}) >>

prompt_tuner_step ==
    [StepSpec("prompt_tuner", {Tree(<<"prompts">>), Tree(<<".codex", "skills">>)})
        EXCEPT !.can_modify_prompts = TRUE]

prompt_library_bootstrap_step ==
    [StepSpec("prompt_library_bootstrap", {Tree(<<"prompts">>), Tree(<<".codex", "skills">>)})
        EXCEPT !.can_modify_prompts = TRUE]

\* ------------------------------------------------------- snapshot and diff
\* The files git ls-files and git ls-files --others report and that exist.
snapshot_state(w, idx, tree, h) ==
    [hashes |-> [p \in {q \in Paths : w[q] # Absent} |-> w[p]],
     head |-> h,
     staged |-> {p \in Paths : idx[p] # tree[p]},
     untracked |-> {p \in Paths : w[p] # Absent /\ idx[p] = Absent}]

changed_paths_from_snapshots(pre, post) ==
    LET pre_h == pre.hashes
        post_h == post.hashes
        all_paths == DOMAIN pre_h \cup DOMAIN post_h
        new == {p \in all_paths : p \notin DOMAIN pre_h /\ p \in DOMAIN post_h}
        deleted == {p \in all_paths : p \in DOMAIN pre_h /\ p \notin DOMAIN post_h}
        modified == {p \in all_paths : p \in DOMAIN pre_h /\ p \in DOMAIN post_h
                                        /\ pre_h[p] # post_h[p]}
    IN [changed |-> new \cup deleted \cup modified, deleted |-> deleted, new |-> new]

\* The paths of changed that raise a forbidden-directory error.
check_forbidden_changes(changed) ==
    {p \in changed : p = <<".git">> \/ (Len(p) > 1 /\ p[1] = ".git")
                     \/ p = <<".orchestrator">> \/ (Len(p) > 1 /\ p[1] = ".orchestrator")}

\* The paths of changed that no glob of the step's allowlist matches.
check_allowlist(step, changed) ==
    {p \in changed : ~ \E pat \in step.allowlist : path_matches_glob(p, pat)}

\* The size in bytes of a file with content c.
file_size(c) == c * 1000

RECURSIVE SumOver(_, _)
SumOver(S, f) ==
    IF S = {} THEN 0
    ELSE LET x == CHOOSE y \in S : TRUE IN f[x] + SumOver(S \ {x}, f)

bytes_changed_for_paths(paths, pre, post, w) ==
    SumOver(paths,
            [p \in paths |->
                IF p \in DOMAIN pre.hashes \/ p \in DOMAIN post.hashes
                THEN (IF w[p] # Absent THEN file_size(w[p]) ELSE 0)
                ELSE 0])

\* ------------------------------------------------------------------ policy
\* F applied to the value of v.
Bind(v, F(_)) == CHOOSE r \in {F(x) : x \in {v}} : TRUE

Get(f, k) == IF k \in DOMAIN f THEN f[k] ELSE 0
Put(f, k, v) == [x \in DOMAIN f \cup {k} |-> IF x = k THEN v ELSE f[x]]

Strategies == {"ucb1", "explore_then_commit", "rr_elimination"}

\* Thresholds that the code keeps as floats are kept in tenths.
DEFAULT_POLICY ==
    [selection_strategy |-> "ucb1",
     bootstrap_min_trials_per_variant |-> 3,
     commit_window_runs |-> 10,
     elim_min_trials |-> 6,
     elim_min_mean_clean_tenths |-> 1,
     elim_max_failure_rate_tenths |-> 9,
     step_limits_overrides |-> << >>,
     constraint_patches |-> << >>,
     stats |-> << >>]

empty_bucket ==
    [attempts |-> << >>, passes |-> << >>, clean_passes |-> << >>,
     last_rr_index |-> -1,
     commit |-> [active |-> FALSE, best |-> 0, remaining |-> 0,
                 consecutive_not_clean_best |-> 0],
     eliminated |-> {},
     selection_strategy |-> "None"]

get_variant_stats_bucket(stats, key) ==
    IF key \in DOMAIN stats THEN stats[key] ELSE empty_bucket

\* ----------------------------------------------------------------- selector
\* Variant ids are numbers; their numeric order stands for the sort order of
\* the ids, and ids[i + 1] is variant_ids_sorted[i].
IndexOf(ids, v) == (CHOOSE i \in 1..Len(ids) : ids[i] = v) - 1

MaxOf(a, b) == IF a >= b THEN a ELSE b
MinOf(a, b) == IF a <= b THEN a ELSE b

RECURSIVE SumSeq(_, _)
SumSeq(ids, f) == IF ids = << >> THEN 0 ELSE Get(f, Head(ids)) + SumSeq(Tail(ids), f)

\* floor(10^6 * sqrt(ln(max(1, T)) / a)) for 1 <= T, a <= 12, row T, column a:
\* the exploration term of the UCB1 score in millionths.  Within this range the
\* integer scores order the variants as the floating-point scores do.
sqrt_log_micro ==
    <<
       <<0, 0, 0, 0, 0, 0, 0, 0, 0, 0, 0, 0>>,
       <<832554, 588705, 480675, 416277, 372329, 339888, 314676, 294352, 277518, 263276, 251024, 240337>>,
       <<1048147, 741151, 605147, 524073, 468745, 427904, 396162, 370575, 349382, 331453, 316028, 302573>>,
       <<1177410, 832554, 679777, 588705, 526553, 480675, 445019, 416277, 392470, 372329, 355002, 339888>>,
       <<1268636, 897061, 732447, 634318, 567351, 517918, 479499, 448530, 422878, 401178, 382508, 366223>>,
       <<1338566, 946509, 772821, 669283, 598625, 546467, 505930, 473254, 446188, 423291, 403592, 386410>>,
       <<1394958, 986384, 805379, 697479, 623844, 569489, 527244, 493192, 464986, 441124, 420595, 402689>>,
       <<1442026, 1019666, 832554, 721013, 644894, 588705, 545034, 509833, 480675, 456008, 434787, 416277>>,
       <<1482303, 1048147, 855808, 741151, 662906, 605147, 560258, 524073, 494101, 468745, 446931, 427904>>,
       <<1517427, 1072983, 876086, 758713, 678614, 619487, 573533, 536491, 505809, 479852, 457521, 438043>>,
       <<1548513, 1094964, 894034, 774256, 692516, 632178, 585283, 547482, 516171, 489683, 466894, 447017>>,
       <<1576358, 1114653, 910111, 788179, 704969, 643545, 595807, 557326, 525452, 498488, 475290, 455055>>
    >>

ucb_score(cp, a, total) ==
    LET a1 == MaxOf(1, a)
        t1 == MaxOf(1, total)
    IN (cp * 1000000) \div a1 + sqrt_log_micro[t1][a1]

\* v beats w under the sort key (-score, id).
Better(score, v, w) == score[v] > score[w] \/ (score[v] = score[w] /\ v < w)

ArgBest(ids, score) ==
    LET S == {ids[i] : i \in 1..Len(ids)}
    IN CHOOSE v \in S : \A w \in S \ {v} : Better(score, v, w)

\* The bootstrap test taken over all variants instead of any.
needs_bootstrap_all(policy, attempts, ids) ==
    \A i \in 1..Len(ids) : Get(attempts, ids[i]) < policy.bootstrap_min_trials_per_variant

needs_bootstrap(policy, attempts, ids) ==
    \E i \in 1..Len(ids) : Get(attempts, ids[i]) < policy.bootstrap_min_trials_per_variant

\* The variants the elimination rule removes among the active ones.
to_eliminate(policy, active, attempts, passes, clean_passes) ==
    {v \in active :
        LET a == Get(attempts, v)
            p == Get(passes, v)
            a1 == MaxOf(1, a)
        IN a >= policy.elim_min_trials
           /\ (10 * Get(clean_passes, v) < policy.elim_min_mean_clean_tenths * a1
               \/ 10 * (a1 - p) > policy.elim_max_failure_rate_tenths * a1)}

\* The subsequence of ids whose elements are in S.
FilterSeq(ids, S) == SelectSeq(ids, LAMBDA v : v \in S)

select_variant(policy, bucket0, ids) ==
    LET idset == {ids[i] : i \in 1..Len(ids)}
        fill(f) == [v \in DOMAIN f \cup idset |-> Get(f, v)]
        attempts == fill(bucket0.attempts)
        passes == fill(bucket0.passes)
        clean_passes == fill(bucket0.clean_passes)
        bucket == [bucket0 EXCEPT !.attempts = attempts, !.passes = passes,
                                  !.clean_passes = clean_passes]
        n == Len(ids)
        rr_index == (bucket.last_rr_index + 1) % n
        strategy == IF policy.selection_strategy \in Strategies
                    THEN policy.selection_strategy ELSE "ucb1"
        b1 == [bucket EXCEPT !.selection_strategy = strategy]
        total_attempts == SumSeq(ids, attempts)
        ucb == [v \in idset |-> ucb_score(clean_passes[v], attempts[v], total_attempts)]
        \* mean_clean(v) compared as a fraction: key clean/attempts scaled alike
        mean_num == [v \in idset |-> clean_passes[v]]
        mean_den == [v \in idset |-> MaxOf(1, attempts[v])]
        mean_best == CHOOSE v \in idset : \A w \in idset \ {v} :
                        mean_num[v] * mean_den[w] > mean_num[w] * mean_den[v]
                        \/ (mean_num[v] * mean_den[w] = mean_num[w] * mean_den[v] /\ v < w)
        commit == b1.commit
        eliminated == b1.eliminated
        active == FilterSeq(ids, idset \ eliminated)
        active_idx == (b1.last_rr_index + 1) % Len(active)
        chosen_rr == active[active_idx + 1]
        elim2 == eliminated \cup to_eliminate(policy, idset \ eliminated,
                                              attempts, passes, clean_passes)
    IN IF needs_bootstrap(policy, attempts, ids)
       THEN [bucket |-> [bucket EXCEPT !.last_rr_index = rr_index],
             chosen |-> ids[rr_index + 1]]
       ELSE IF strategy = "ucb1"
       THEN [bucket |-> b1, chosen |-> ArgBest(ids, ucb)]
       ELSE IF strategy = "explore_then_commit"
       THEN IF commit.active /\ commit.remaining > 0 /\ commit.best \in idset
            THEN [bucket |-> [b1 EXCEPT !.commit.remaining = commit.remaining - 1],
                  chosen |-> commit.best]
            ELSE [bucket |-> [b1 EXCEPT !.commit.active = TRUE,
                                        !.commit.best = mean_best,
                                        !.commit.remaining = policy.commit_window_runs - 1],
                  chosen |-> mean_best]
       ELSE IF active = << >>
       THEN [bucket |-> [b1 EXCEPT !.eliminated = {}, !.last_rr_index = rr_index],
             chosen |-> ids[rr_index + 1]]
       ELSE [bucket |-> [b1 EXCEPT !.eliminated = elim2,
                                   !.last_rr_index = IndexOf(ids, chosen_rr)],
             chosen |-> chosen_rr]

\* update_variant_stats releasing the commit at the third not-clean attempt.
update_variant_stats_release_at_three(policy, bucket, variant_id, passed, clean_pass) ==
    LET attempts == Put(bucket.attempts, variant_id, Get(bucket.attempts, variant_id) + 1)
        passes == IF passed
                  THEN Put(bucket.passes, variant_id, Get(bucket.passes, variant_id) + 1)
                  ELSE bucket.passes
        clean_passes == IF clean_pass
                        THEN Put(bucket.clean_passes, variant_id,
                                 Get(bucket.clean_passes, variant_id) + 1)
                        ELSE bucket.clean_passes
        b1 == [bucket EXCEPT !.attempts = attempts, !.passes = passes,
                             !.clean_passes = clean_passes]
        commit == bucket.commit
        c == commit.consecutive_not_clean_best + 1
        a == Get(attempts, variant_id)
        release == c >= 3 \/ (a >= 10 /\ 10 * Get(clean_passes, variant_id) < 3 * MaxOf(1, a))
    IN IF policy.selection_strategy = "explore_then_commit" /\ commit.best = variant_id
       THEN IF clean_pass
            THEN [b1 EXCEPT !.commit.consecutive_not_clean_best = 0]
            ELSE IF release
            THEN [b1 EXCEPT !.commit.consecutive_not_clean_best = c,
                            !.commit.active = FALSE,
                            !.commit.remaining = 0]
            ELSE [b1 EXCEPT !.commit.consecutive_not_clean_best = c]
       ELSE b1

update_variant_stats(policy, bucket, variant_id, passed, clean_pass) ==
    LET attempts == Put(bucket.attempts, variant_id, Get(bucket.attempts, variant_id) + 1)
        passes == IF passed
                  THEN Put(bucket.passes, variant_id, Get(bucket.passes, variant_id) + 1)
                  ELSE bucket.passes
        clean_passes == IF clean_pass
                        THEN Put(bucket.clean_passes, variant_id,
                                 Get(bucket.clean_passes, variant_id) + 1)
                        ELSE bucket.clean_passes
        b1 == [bucket EXCEPT !.attempts = attempts, !.passes = passes,
                             !.clean_passes = clean_passes]
        commit == bucket.commit
        c == commit.consecutive_not_clean_best + 1
        a == Get(attempts, variant_id)
        release == c >= 2 \/ (a >= 10 /\ 10 * Get(clean_passes, variant_id) < 3 * MaxOf(1, a))
    IN IF policy.selection_strategy = "explore_then_commit" /\ commit.best = variant_id
       THEN IF clean_pass
            THEN [b1 EXCEPT !.commit.consecutive_not_clean_best = 0]
            ELSE IF release
            THEN [b1 EXCEPT !.commit.consecutive_not_clean_best = c,
                            !.commit.active = FALSE,
                            !.commit.remaining = 0]
            ELSE [b1 EXCEPT !.commit.consecutive_not_clean_best = c]
       ELSE b1

\* --------------------------------------------------- limits and constraints
apply_step_limits_overrides(policy, step) ==
    IF step.name \in DOMAIN policy.step_limits_overrides
    THEN LET ov == policy.step_limits_overrides[step.name]
         IN [step EXCEPT
               !.max_changed_files = MinOf(step.max_changed_files, ov.max_changed_files),
               !.max_total_bytes_changed =
                   MinOf(step.max_total_bytes_changed, ov.max_total_bytes_changed),
               !.max_deleted_files = MinOf(step.max_deleted_files, ov.max_deleted_files)]
    ELSE step

tighten_limits_on_failure(policy, step) ==
    [policy EXCEPT !.step_limits_overrides =
        Put(policy.step_limits_overrides, step.name,
            [max_changed_files |->
                 MinOf(step.max_changed_files, MaxOf(5, (step.max_changed_files * 8) \div 10)),
             max_total_bytes_changed |->
                 MinOf(step.max_total_bytes_changed,
                       MaxOf(20000, (step.max_total_bytes_changed * 8) \div 10)),
             max_deleted_files |-> MinOf(step.max_deleted_files, 0)])]

maybe_update_constraint_patch(policy, step_name, code) ==
    [policy EXCEPT !.constraint_patches = Put(policy.constraint_patches, step_name, code)]

\* ------------------------------------------------------------------- agent
NoPath == << >>

\* What one agent invocation does: nothing, or write (or delete) one file and
\* maybe stage it, or commit the index, or flip between exiting 0 and exiting
\* non-zero; the exit behaviour then stays until the next flip.
NoopBehaviour == [path |-> NoPath, content |-> Absent, git |-> "none", flip |-> FALSE]

Behaviours(w, used) ==
    {NoopBehaviour}
    \cup (IF used < MaxActs
          THEN {b \in [path : Paths, content : 0..MaxContent, git : {"none", "add"},
                       flip : {FALSE}] : b.content # w[b.path]}
               \cup {[path |-> NoPath, content |-> Absent, git |-> "commit", flip |-> FALSE],
                     [path |-> NoPath, content |-> Absent, git |-> "none", flip |-> TRUE]}
          ELSE {})

Spent(beh) == IF beh = NoopBehaviour THEN 0 ELSE 1

codex_exec_step(beh, failing, w, idx, tree, h) ==
    LET w1 == IF beh.path \in Paths THEN [w EXCEPT ![beh.path] = beh.content] ELSE w
        idx1 == IF beh.git = "add" THEN [idx EXCEPT ![beh.path] = w1[beh.path]] ELSE idx
    IN [w |-> w1, idx |-> idx1,
        tree |-> IF beh.git = "commit" THEN idx1 ELSE tree,
        h |-> IF beh.git = "commit" THEN h + 1 ELSE h,
        exit_code |-> IF failing # beh.flip THEN 1 ELSE 0]

\* ------------------------------------------------------------------ revert
\* The revert as git restore --worktree of the whole tree would do it.
deterministic_revert_whole_tree(changed_paths, new_paths, w, idx) ==
    LET restore_paths == {p \in Paths : idx[p] # Absent} \ new_paths
        remove_paths == new_paths
    IN [ok |-> TRUE,
        w |-> [p \in Paths |-> IF p \in restore_paths THEN idx[p]
                               ELSE IF p \in remove_paths THEN Absent
                               ELSE w[p]]]

\* git restore --worktree fails as a whole when one of its paths is not in
\* the index; run_cmd(check=True) then raises and nothing is removed.
deterministic_revert(changed_paths, new_paths, w, idx) ==
    LET restore_paths == changed_paths \ new_paths
        remove_paths == new_paths
        restore_fails == \E p \in restore_paths : idx[p] = Absent
    IN IF restore_fails
       THEN [ok |-> FALSE, w |-> w]
       ELSE [ok |-> TRUE,
             w |-> [p \in Paths |-> IF p \in restore_paths THEN idx[p]
                                    ELSE IF p \in remove_paths THEN Absent
                                    ELSE w[p]]]

\* --------------------------------------------------------- prompt variants
\* The sorted variant ids of an agent: the files of prompts/<agent>/ under the
\* library feature, else the two embedded variants.
prompt_variants_for_agent(agent, design_b, w) ==
    IF design_b /\ agent = "qa" /\ w[PROMPT_FILE] # Absent THEN <<1>> ELSE <<1, 2>>

\* The epoch is a hash of the variant ids and texts: the embedded variants
\* hash to 0, the library variant to its content.
hash_prompt_epoch(agent, design_b, w) ==
    IF design_b /\ agent = "qa" /\ w[PROMPT_FILE] # Absent THEN w[PROMPT_FILE] ELSE 0

policy_key(agent, epoch) == <<agent, epoch>>

\* ------------------------------------------------------------ run_step_once
\* clean taken from the attempt index alone.
clean_of_first_attempt(passed, step_attempt) == step_attempt = 0

\* clean as run_step_once computes it from passed and the attempt index.
clean_of(passed, step_attempt) == passed /\ step_attempt = 0

must_revert_of(invariant_errors, allowlist_errors, cap_errors) ==
    invariant_errors # {} \/ allowlist_errors # {} \/ cap_errors # {}

\* run_step_once from the diff on: gating, revert, statistics.
run_step_gate(step, step_attempt, policy, key, sel, pre, ag, post, d, idx) ==
    LET invariant_errors ==
            (IF check_forbidden_changes(d.changed) # {} THEN {"forbidden_path"} ELSE {})
            \cup (IF pre.head # post.head THEN {"head_changed"} ELSE {})
            \cup (IF post.staged # {} THEN {"staged_not_empty"} ELSE {})
            \cup (IF idx # ag.idx THEN {"index_changed"} ELSE {})
        allowlist_errors == check_allowlist(step, d.changed)
        total_bytes == bytes_changed_for_paths(d.changed, pre, post, ag.w)
        cap_errors ==
            (IF Cardinality(d.changed) > step.max_changed_files THEN {"changed_files"} ELSE {})
            \cup (IF total_bytes > step.max_total_bytes_changed THEN {"bytes"} ELSE {})
            \cup (IF Cardinality(d.deleted) > step.max_deleted_files THEN {"deleted"} ELSE {})
    IN Bind(must_revert_of(invariant_errors, allowlist_errors, cap_errors), LAMBDA must_revert :
       Bind(IF must_revert THEN deterministic_revert(d.changed, d.new, ag.w, ag.idx)
            ELSE [ok |-> TRUE, w |-> ag.w], LAMBDA rev :
       Bind(~must_revert /\ ag.exit_code = 0, LAMBDA passed :
         [raised |-> IF rev.ok THEN "no" ELSE "CMD_FAILED", invoked |-> TRUE,
          w |-> rev.w, idx |-> ag.idx, tree |-> ag.tree, h |-> ag.h,
          policy |-> [policy EXCEPT !.stats =
                        Put(policy.stats, key,
                            IF rev.ok
                            THEN update_variant_stats(policy, sel.bucket, sel.chosen, passed,
                                                      clean_of(passed, step_attempt))
                            ELSE sel.bucket)],
          result |-> [exit_code |-> ag.exit_code, changed_paths |-> d.changed,
                      deleted_paths |-> d.deleted, new_paths |-> d.new,
                      invariant_errors |-> invariant_errors,
                      allowlist_errors |-> allowlist_errors, cap_errors |-> cap_errors,
                      must_revert |-> must_revert, passed |-> passed,
                      pre |-> pre.hashes]])))

\* The result of a window that ended before the agent was invoked.
NoResult(pre) ==
    [exit_code |-> 0, changed_paths |-> {}, deleted_paths |-> {}, new_paths |-> {},
     invariant_errors |-> {}, allowlist_errors |-> {}, cap_errors |-> {},
     must_revert |-> FALSE, passed |-> FALSE, pre |-> pre.hashes]

run_step_once(step0, step_attempt, beh, failing, design_b, w, idx, tree, h, policy) ==
    Bind(apply_step_limits_overrides(policy, step0), LAMBDA step :
    Bind(policy_key(step.prompt_agent, hash_prompt_epoch(step.prompt_agent, design_b, w)),
         LAMBDA key :
    Bind(get_variant_stats_bucket(policy.stats, key), LAMBDA bucket :
    Bind(select_variant(policy, bucket,
                        prompt_variants_for_agent(step.prompt_agent, design_b, w)),
         LAMBDA sel :
    Bind(snapshot_state(w, idx, tree, h), LAMBDA pre :
      IF pre.staged # {}
      THEN [raised |-> "PRE_STAGED_NOT_EMPTY", invoked |-> FALSE,
            w |-> w, idx |-> idx, tree |-> tree, h |-> h,
            policy |-> [policy EXCEPT !.stats = Put(policy.stats, key, sel.bucket)],
            result |-> NoResult(pre)]
      ELSE Bind(codex_exec_step(beh, failing, w, idx, tree, h), LAMBDA ag :
           Bind(snapshot_state(ag.w, ag.idx, ag.tree, ag.h), LAMBDA post :
           Bind(changed_paths_from_snapshots(pre, post), LAMBDA d :
             run_step_gate(step, step_attempt, policy, key, sel, pre, ag, post, d,
                           idx)))))))))

lock_violation_in_changes(step, changed_paths, design_b) ==
    IF ~step.can_modify_prompts
    THEN (IF \E p \in changed_paths : p = <<"prompts">> \/ (Len(p) > 1 /\ p[1] = "prompts")
          THEN {"PROMPTS_RESTRICTED"} ELSE {})
    ELSE {}

\* -------------------------------------------------------------- validators
\* Required artifacts outside Paths are taken to be present and well-formed.
dir_exists(w, d) == \E p \in Paths : w[p] # Absent /\ Len(p) > Len(d) /\ IsPrefix(d, p)

validate_base_files_and_structure(design_b, w) ==
    w[REQUIREMENTS_MD] # Absent /\ (design_b => dir_exists(w, <<"prompts">>))

validate_requirements_md(w) == w[REQUIREMENTS_MD] \in WellFormed

validate_design_b_prompt_skill_guardrails(w) == w[PROMPT_FILE] \in {Absent} \cup WellFormed

\* The error codes of the validators on the files of the model.
validator_error_codes(design_b, w) ==
    (IF w[REQUIREMENTS_MD] = Absent THEN {"REQUIRED_FILE_MISSING", "REQ_MD_MISSING"}
     ELSE IF ~validate_requirements_md(w) THEN {"REQ_HEADING_MISSING"} ELSE {})
    \cup (IF design_b /\ ~dir_exists(w, <<"prompts">>) THEN {"REQUIRED_DIR_MISSING_B"} ELSE {})
    \cup (IF design_b /\ ~validate_design_b_prompt_skill_guardrails(w)
          THEN {"PROMPT_FORBIDDEN_SUBSTRING"} ELSE {})

validate_all(design_b, w) ==
    /\ validate_base_files_and_structure(design_b, w)
    /\ validate_requirements_md(w)
    /\ (design_b => validate_design_b_prompt_skill_guardrails(w))

\* The score without the clamp at 0.
compute_eval_score_unclamped(design_b_, hard_invalid, validators_ok, tests_ok, retries_beyond_first, fixer_runs, changed_files_total, required_ok) ==
    IF ~design_b_ THEN 0
    ELSE IF hard_invalid THEN -1
    ELSE (IF required_ok THEN 40 ELSE 0) + (IF validators_ok THEN 30 ELSE 0)
         + (IF tests_ok THEN 30 ELSE 0) - 5 * retries_beyond_first - 10 * fixer_runs
         - MaxOf(0, changed_files_total - 20)

compute_eval_score(design_b, hard_invalid, validators_ok, tests_ok, retries_beyond_first, fixer_runs, changed_files_total, required_ok) ==
    IF ~design_b THEN 0
    ELSE IF hard_invalid THEN -1
    ELSE MaxOf(0, (IF required_ok THEN 40 ELSE 0)
                  + (IF validators_ok THEN 30 ELSE 0)
                  + (IF tests_ok THEN 30 ELSE 0)
                  - 5 * retries_beyond_first
                  - 10 * fixer_runs
                  - MaxOf(0, changed_files_total - 20))


\* -------------------------------------------------------------------- state
VARIABLES
    pc,                \* where the run stands: start, bootstrap, step, evaluate, tuner,
                       \* done (run_pipeline returned), raised (main caught an error)
    design_b,          \* --design-b
    backend_required,  \* should_backend_be_required(brief)
    wt,                \* the worktree: path -> content
    index,             \* the VCS index: path -> content
    head_tree,         \* the tree of HEAD: path -> content
    head,              \* the commit HEAD names
    policy,            \* the policy document in memory
    policy_file,       \* .orchestrator/policy.json: whether this run wrote it, and what
    phase,             \* which execution of the specialist pipeline: baseline, regression
    step_idx,          \* the step of default_steps being attempted
    attempt,           \* the attempt index of that step
    exec,              \* the counters of execute_specialist_steps
    baseline,          \* the summary of the baseline execution
    regression,        \* the summary of the regression execution
    final,             \* run_summary["final"]
    tuner,             \* the tuner record and the tuner's change set
    exit_code,         \* what main returns
    agent_failing,     \* the agent currently exits non-zero
    acts,              \* agent invocations so far that did something new
    invoked,           \* the agent was invoked in this run
    last,              \* the latest run window: what gating found and what the revert left
    hist,              \* what happened earlier in the run
    sel,               \* the selector exercised on its own (specification SpecSel)
    call               \* a function exercised on its own: its inputs and its result

vars == <<pc, design_b, backend_required, wt, index, head_tree, head, policy,
          policy_file, phase, step_idx, attempt, exec, baseline, regression, final, tuner,
          exit_code, agent_failing, acts, invoked, last, hist, sel, call>>

NoExit == -1

NoSummary ==
    [set |-> FALSE, score |-> 0, validators_ok |-> FALSE, tests_ok |-> FALSE,
     required_ok |-> FALSE, hard_invalid |-> FALSE, retries_beyond_first_total |-> 0,
     fixer_runs_total |-> 0, changed_files_total |-> 0]

NewExec == [retries_beyond_first_total |-> 0, fixer_runs_total |-> 0,
            changed_files_total |-> 0, hard_invalid |-> FALSE]

NoTuner == [ran |-> FALSE, ok |-> FALSE, changed |-> {}, new |-> {}, pre |-> << >>,
            regression_ran |-> FALSE, accepted |-> FALSE]

\* The content of p in a snapshot's hashes.
ContentIn(hashes, p) == IF p \in DOMAIN hashes THEN hashes[p] ELSE Absent

\* The worktree w agrees with the snapshot's hashes on the paths S.
SameOn(w, hashes, S) == \A p \in S : w[p] = ContentIn(hashes, p)

\* The paths of a change set that the locks protect from a step without the
\* matching can_modify flag.
lock_protected(changed_paths) ==
    {p \in changed_paths :
        \/ p \in {<<"PROJECT_BRIEF.md">>, <<"PROJECT_BRIEF.yaml">>, <<"AGENTS.md">>}
        \/ IsPrefix(<<"prompts">>, p)
        \/ IsPrefix(<<".codex", "skills">>, p)}

NoWindow == [kind |-> "none", raised |-> "no", violating |-> FALSE, restored |-> TRUE,
             forbidden |-> FALSE, forbidden_kept |-> FALSE, passed |-> FALSE,
             locked |-> FALSE, locked_kept |-> FALSE, frame_kept |-> TRUE]

\* The record of a run window: r is the window's result, violating says that
\* its change set was to be reverted, w is the worktree the window leaves.
Window(kind, raised, r, violating, passed, w) ==
    [kind |-> kind, raised |-> raised, violating |-> violating,
     restored |-> SameOn(w, r.pre, r.changed_paths \cup r.new_paths),
     forbidden |-> check_forbidden_changes(r.changed_paths) # {},
     forbidden_kept |-> ~SameOn(w, r.pre, check_forbidden_changes(r.changed_paths)),
     passed |-> passed,
     locked |-> lock_protected(r.changed_paths) # {},
     locked_kept |-> ~SameOn(w, r.pre, lock_protected(r.changed_paths)),
     frame_kept |-> SameOn(w, r.pre, Paths \ (r.changed_paths \cup r.new_paths))]

\* dry_validate.json of the run directory, before it is written.
NoDryValidate == [written |-> FALSE, validators_ok |-> FALSE, tests_ok |-> FALSE]

\* The attempts of the current step so far that failed by allowlist errors
\* alone, if all of them did, and whether each left the pre snapshot behind.
NoStreak == [n |-> 0, restored |-> TRUE]

NoHist ==
    [orch_in_step_diff |-> FALSE, invocations |-> 0, dry_validate |-> NoDryValidate,
     allowlist_streak |-> NoStreak]

SelIdle == [pc |-> "off"]

NoCall == [op |-> "none"]

\* A repository with nothing staged: each path absent, tracked or untracked.
RepoState(req, orch, prompt) ==
    (REQUIREMENTS_MD :> req) @@ (ORCH_FILE :> orch) @@ (PROMPT_FILE :> prompt)

\* The repositories a run starts in: a fresh one, one with everything in
\* place and committed, one whose files were never added, and one that has no
\* prompt library yet.  The orchestrator's own directory is not under version
\* control.
RepoStates ==
    {RepoState("absent", "absent", "absent"),
     RepoState("tracked", "untracked", "tracked"),
     RepoState("untracked", "absent", "untracked"),
     RepoState("tracked", "untracked", "absent")}

Init ==
    /\ pc = "start"
    /\ design_b \in BOOLEAN
    /\ backend_required \in BOOLEAN
    /\ \E st \in RepoStates :
          /\ wt = [p \in Paths |-> IF st[p] = "absent" THEN Absent ELSE 1]
          /\ index = [p \in Paths |-> IF st[p] = "tracked" THEN 1 ELSE Absent]
    /\ head_tree = index
    /\ head = 0
    /\ policy = DEFAULT_POLICY
    /\ policy_file = [written |-> FALSE, doc |-> DEFAULT_POLICY]
    /\ phase = "baseline"
    /\ step_idx = 1
    /\ attempt = 0
    /\ exec = NewExec
    /\ baseline = NoSummary
    /\ regression = NoSummary
    /\ final = NoSummary
    /\ tuner = NoTuner
    /\ exit_code = NoExit
    /\ agent_failing = FALSE
    /\ acts = 0
    /\ invoked = FALSE
    /\ last = NoWindow
    /\ hist = NoHist
    /\ sel = SelIdle
    /\ call = NoCall

\* ------------------------------------------------------------------ driver
\* The exit code with the tests looked at before the validators.
exit_code_of_tests_first(f) ==
    IF f.hard_invalid THEN CODE_INVARIANT
    ELSE IF ~f.tests_ok THEN CODE_TEST_FAIL
    ELSE IF ~f.validators_ok THEN CODE_VALIDATION
    ELSE CODE_SUCCESS

\* The exit code run_pipeline returns for the final summary f.
exit_code_of(f) ==
    IF f.hard_invalid THEN CODE_INVARIANT
    ELSE IF ~f.validators_ok THEN CODE_VALIDATION
    ELSE IF ~f.tests_ok THEN CODE_TEST_FAIL
    ELSE CODE_SUCCESS

\* main's handler of OrchestratorError: the run ends with the precondition code.
Raise ==
    /\ pc' = "raised"
    /\ exit_code' = CODE_PRECONDITION
    /\ UNCHANGED <<policy_file, final>>

\* The end of run_pipeline: the artifacts and the policy are written and the
\* exit code follows from the final summary.
FinishRun(f, pol) ==
    /\ pc' = "done"
    /\ final' = f
    /\ policy_file' = [written |-> TRUE, doc |-> pol]
    /\ exit_code' = exit_code_of(f)

\* The policy file with the policy saved once the baseline is summarised.
policy_file_saved_after_baseline(file, pol) == [written |-> TRUE, doc |-> pol]

\* The policy file between the baseline execution and the prompt tuner:
\* run_pipeline writes nothing to it there.
policy_file_after_baseline(file, pol) == file

StepsOf == [db \in BOOLEAN, br \in BOOLEAN |-> default_steps(db, br)]

Steps == StepsOf[design_b, backend_required]

\* run_pipeline up to the first agent invocation.
Start ==
    /\ pc = "start"
    /\ \E preflight_ok \in BOOLEAN :
          IF ~preflight_ok
          THEN /\ pc' = "raised"
               /\ exit_code' = CODE_PRECONDITION
          ELSE /\ pc' = IF design_b /\ ~dir_exists(wt, <<"prompts">>)
                        THEN "bootstrap" ELSE "step"
               /\ UNCHANGED exit_code
    /\ UNCHANGED <<design_b, backend_required, wt, index, head_tree, head, policy,
                   policy_file, phase, step_idx, attempt, exec, baseline, regression, final,
                   tuner, agent_failing, acts, invoked, last, hist, sel, call>>

\* The exit code of a dry validation with the tests looked at first.
dry_validate_exit_tests_first(validators_ok, tests_ok) ==
    IF ~tests_ok THEN CODE_TEST_FAIL
    ELSE IF ~validators_ok THEN CODE_VALIDATION
    ELSE CODE_SUCCESS

dry_validate_exit(validators_ok, tests_ok) ==
    IF ~validators_ok THEN CODE_VALIDATION
    ELSE IF ~tests_ok THEN CODE_TEST_FAIL
    ELSE CODE_SUCCESS

\* main with --dry-validate: run_dry_validate from its preconditions to its
\* exit code.
DryValidate ==
    /\ pc = "start"
    /\ phase' = "dry_validate"
    /\ \E preflight_ok \in BOOLEAN :
          IF ~preflight_ok
          THEN /\ pc' = "raised"
               /\ exit_code' = CODE_PRECONDITION
               /\ UNCHANGED hist
          ELSE \E tests_ok \in BOOLEAN :
               \E validators_ok \in {validate_all(design_b, wt)} :
                  /\ pc' = "done"
                  /\ hist' = [hist EXCEPT !.dry_validate =
                                 [written |-> TRUE, validators_ok |-> validators_ok,
                                  tests_ok |-> tests_ok]]
                  /\ exit_code' = dry_validate_exit(validators_ok, tests_ok)
    /\ UNCHANGED <<design_b, backend_required, wt, index, head_tree, head, policy,
                   policy_file, step_idx, attempt, exec, baseline, regression, final,
                   tuner, agent_failing, acts, invoked, last, sel, call>>

\* The window of maybe_prompt_library_bootstrap: what gating finds and what the
\* revert leaves.
bootstrap_window(beh, failing, w, idx, tree, h) ==
    Bind(snapshot_state(w, idx, tree, h), LAMBDA pre :
    Bind(codex_exec_step(beh, failing, w, idx, tree, h), LAMBDA ag :
    Bind(changed_paths_from_snapshots(pre, snapshot_state(ag.w, ag.idx, ag.tree, ag.h)),
         LAMBDA d :
    Bind(\/ ag.exit_code # 0
         \/ check_forbidden_changes(d.changed) # {}
         \/ check_allowlist(prompt_library_bootstrap_step, d.changed) # {}
         \/ ~validate_design_b_prompt_skill_guardrails(ag.w), LAMBDA failed :
    Bind(IF failed THEN deterministic_revert(d.changed, d.new, ag.w, ag.idx)
         ELSE [ok |-> TRUE, w |-> ag.w], LAMBDA rev :
      [raised |-> IF rev.ok THEN "no" ELSE "CMD_FAILED", failed |-> failed,
       w |-> rev.w, idx |-> ag.idx, tree |-> ag.tree, h |-> ag.h,
       result |-> [changed_paths |-> d.changed, new_paths |-> d.new,
                   pre |-> pre.hashes]])))))

\* maybe_prompt_library_bootstrap, and run_pipeline's handling of its failure.
BootstrapRun ==
    /\ pc = "bootstrap"
    /\ \E beh \in Behaviours(wt, acts) :
       \E out \in {bootstrap_window(beh, agent_failing, wt, index, head_tree, head)} :
          /\ acts' = acts + Spent(beh)
          /\ agent_failing' = (agent_failing # beh.flip)
          /\ invoked' = TRUE
          /\ wt' = out.w
          /\ index' = out.idx
          /\ head_tree' = out.tree
          /\ head' = out.h
          /\ last' = Window("bootstrap", out.raised, out.result, out.failed, FALSE, out.w)
          /\ IF out.raised # "no"
             THEN Raise
             ELSE IF out.failed
             THEN /\ pc' = "done"
                  /\ policy_file' = [written |-> TRUE, doc |-> policy]
                  /\ exit_code' = CODE_VALIDATION
                  /\ UNCHANGED final
             ELSE /\ pc' = "step"
                  /\ UNCHANGED <<policy_file, exit_code, final>>
    /\ hist' = [hist EXCEPT !.invocations = @ + 1]
    /\ UNCHANGED <<design_b, backend_required, policy, phase, step_idx, attempt,
                   exec, baseline, regression, tuner, sel, call>>

\* --------------------------------------------------------------- scheduler
attempts_limit == 3

fixer_supported ==
    {"REQUIRED_FILE_MISSING", "REQUIRED_DIR_MISSING", "REQ_HEADING_MISSING",
     "TEST_HEADING_MISSING", "TEST_CODEBLOCK_MISSING", "AGENT_TASKS_HEADING_MISSING",
     "AGENT_TASKS_SECTION_MISSING"}

\* The failure codes execute_specialist_steps hands to the fixer.
fixer_failure_codes == {"VALIDATOR_FIX"}

\* run_fixer_if_possible returns False before invoking the agent unless one
\* of the failure codes is supported; execute_specialist_steps hands it
\* fixer_failure_codes only, so the agent is never invoked from it.
run_fixer_if_possible(failure_codes) == \E c \in failure_codes : c \in fixer_supported

\* The attempt loop with one attempt more.
budget_exhausted_late(success, att) == ~success /\ att = attempts_limit

\* The attempt loop ends without success: range(attempts_limit) is used up.
budget_exhausted(success, att) == ~success /\ att = attempts_limit - 1

\* The counters execute_specialist_steps keeps over the attempts of its steps.
tally(ex, changed_count, success, att, fixer_ok, hard) ==
    [ex EXCEPT !.changed_files_total = @ + changed_count,
               !.retries_beyond_first_total =
                   @ + (IF success THEN att ELSE IF att > 0 THEN 1 ELSE 0),
               !.fixer_runs_total = @ + (IF fixer_ok THEN 1 ELSE 0),
               !.hard_invalid = @ \/ hard]

\* What the attempt loop does with the result of run_step_once.
after_attempt(step, att, out, design_b_, ex) ==
    LET r == out.result
        lock_errors == lock_violation_in_changes(step, r.changed_paths, design_b_)
        gating_fail == r.invariant_errors # {} \/ r.allowlist_errors # {}
                       \/ r.cap_errors # {} \/ lock_errors # {}
        success == ~gating_fail /\ r.exit_code = 0
        exhausted == budget_exhausted(success, att)
        fixer_ok == exhausted /\ run_fixer_if_possible(fixer_failure_codes)
        hard == exhausted /\ ~fixer_ok
    IN [success |-> success, step_ok |-> success \/ fixer_ok, exhausted |-> exhausted,
        policy |-> IF gating_fail
                   THEN tighten_limits_on_failure(
                            maybe_update_constraint_patch(out.policy, step.name,
                                                          "ALLOWLIST_OR_INVARIANT_FAIL"),
                            step)
                   ELSE IF ~success
                   THEN maybe_update_constraint_patch(out.policy, step.name,
                                                      "CODEX_EXIT_NONZERO")
                   ELSE out.policy,
        exec |-> tally(ex, Cardinality(r.changed_paths), success, att, fixer_ok, hard)]

\* One iteration of the attempt loop of execute_specialist_steps, with what
\* follows it up to the next agent invocation.
StepAttempt ==
    /\ pc = "step"
    /\ \E beh \in Behaviours(wt, acts) :
       \E out \in {run_step_once(Steps[step_idx], attempt, beh, agent_failing, design_b,
                                 wt, index, head_tree, head, policy)} :
       \E nxt \in {after_attempt(Steps[step_idx], attempt, out, design_b, exec)} :
          /\ acts' = acts + (IF out.invoked THEN Spent(beh) ELSE 0)
          /\ agent_failing' = IF out.invoked THEN (agent_failing # beh.flip)
                              ELSE agent_failing
          /\ invoked' = (invoked \/ out.invoked)
          /\ wt' = out.w
          /\ index' = out.idx
          /\ head_tree' = out.tree
          /\ head' = out.h
          /\ last' = Window("step", out.raised, out.result, out.result.must_revert,
                            out.result.passed /\ out.raised = "no", out.w)
          /\ hist' = [hist EXCEPT
                         !.orch_in_step_diff =
                             @ \/ check_forbidden_changes(out.result.changed_paths) # {},
                         !.invocations = @ + (IF out.invoked THEN 1 ELSE 0),
                         !.allowlist_streak =
                             IF /\ out.raised = "no"
                                /\ out.result.allowlist_errors # {}
                                /\ out.result.invariant_errors = {}
                                /\ out.result.cap_errors = {}
                                /\ (attempt = 0 \/ @.n = attempt)
                             THEN [n |-> attempt + 1,
                                   restored |-> (attempt = 0 \/ @.restored)
                                       /\ SameOn(out.w, out.result.pre,
                                                 out.result.changed_paths
                                                     \cup out.result.new_paths)]
                             ELSE NoStreak]
          /\ IF out.raised # "no"
             THEN /\ Raise
                  /\ policy' = out.policy
                  /\ UNCHANGED <<step_idx, attempt, exec>>
             ELSE /\ policy' = nxt.policy
                  /\ exec' = nxt.exec
                  /\ UNCHANGED <<policy_file, final, exit_code>>
                  /\ IF nxt.step_ok /\ step_idx < Len(Steps)
                     THEN pc' = "step" /\ step_idx' = step_idx + 1 /\ attempt' = 0
                     ELSE IF nxt.step_ok \/ nxt.exhausted
                     THEN pc' = "evaluate" /\ UNCHANGED <<step_idx, attempt>>
                     ELSE pc' = "step" /\ attempt' = attempt + 1 /\ UNCHANGED step_idx
    /\ UNCHANGED <<design_b, backend_required, phase, baseline, regression, tuner, sel, call>>

\* Acceptance without the validators.
accept_of_without_validators(regr, base) ==
    regr.score > base.score /\ regr.tests_ok /\ ~regr.hard_invalid

\* The tuner's changes are accepted on these terms (run_pipeline).
accept_of(regr, base) ==
    regr.score > base.score /\ regr.validators_ok /\ regr.tests_ok /\ ~regr.hard_invalid

\* The summary execute_specialist_steps returns.
summary_of(design_b_, ex, w, tests_ok) ==
    LET validators_ok == validate_all(design_b_, w)
        required_ok == validate_base_files_and_structure(design_b_, w)
    IN [set |-> TRUE,
        score |-> compute_eval_score(design_b_, ex.hard_invalid, validators_ok, tests_ok,
                                     ex.retries_beyond_first_total, ex.fixer_runs_total,
                                     ex.changed_files_total, required_ok),
        validators_ok |-> validators_ok, tests_ok |-> tests_ok,
        required_ok |-> required_ok, hard_invalid |-> ex.hard_invalid,
        retries_beyond_first_total |-> ex.retries_beyond_first_total,
        fixer_runs_total |-> ex.fixer_runs_total,
        changed_files_total |-> ex.changed_files_total]

\* The end of execute_specialist_steps (validators, tests, score) and what
\* run_pipeline does with the summary up to the next agent invocation.
Evaluate ==
    /\ pc = "evaluate"
    /\ \E tests_ok \in BOOLEAN :
       \E summary \in {summary_of(design_b, exec, wt, tests_ok)} :
          IF phase = "baseline"
          THEN /\ baseline' = summary
               /\ UNCHANGED <<regression, tuner, wt>>
               /\ IF design_b
                  THEN /\ pc' = "tuner"
                       /\ final' = summary
                       /\ policy_file' = policy_file_after_baseline(policy_file, policy)
                       /\ UNCHANGED exit_code
                  ELSE FinishRun(summary, policy)
          ELSE \E rev \in {deterministic_revert(tuner.changed, tuner.new, wt, index)} :
               /\ regression' = summary
               /\ tuner' = [tuner EXCEPT !.regression_ran = TRUE,
                                         !.accepted = accept_of(summary, baseline)]
               /\ UNCHANGED baseline
               /\ IF accept_of(summary, baseline)
                  THEN FinishRun(summary, policy) /\ wt' = wt
                  ELSE IF rev.ok
                  THEN FinishRun(baseline, policy) /\ wt' = rev.w
                  ELSE Raise /\ wt' = wt
    /\ UNCHANGED <<design_b, backend_required, index, head_tree, head, policy,
                   phase, step_idx, attempt, exec, agent_failing, acts, invoked, last,
                   hist, sel, call>>

\* run_prompt_tuner_once: run_step_once, then the guardrails and their revert.
run_prompt_tuner_once(beh, failing, w, idx, tree, h, pol) ==
    Bind(run_step_once(prompt_tuner_step, 0, beh, failing, TRUE, w, idx, tree, h, pol),
         LAMBDA out :
    Bind(validate_design_b_prompt_skill_guardrails(out.w), LAMBDA guard_ok :
    Bind(IF out.raised = "no" /\ ~guard_ok
         THEN deterministic_revert(out.result.changed_paths, out.result.new_paths,
                                   out.w, out.idx)
         ELSE [ok |-> TRUE, w |-> out.w], LAMBDA rev :
    Bind(IF out.raised # "no" THEN out.raised
         ELSE IF ~rev.ok THEN "CMD_FAILED" ELSE "no", LAMBDA raised :
      [out EXCEPT !.raised = raised, !.w = rev.w]
      @@ [ok |-> /\ raised = "no"
                 /\ out.result.exit_code = 0
                 /\ ~out.result.must_revert
                 /\ guard_ok,
          violating |-> out.result.must_revert \/ (out.raised = "no" /\ ~guard_ok)]))))

\* run_prompt_tuner_once and run_pipeline's branch on its outcome.
TunerRun ==
    /\ pc = "tuner"
    /\ \E beh \in Behaviours(wt, acts) :
       \E out \in {run_prompt_tuner_once(beh, agent_failing, wt, index, head_tree, head,
                                         policy)} :
          /\ acts' = acts + (IF out.invoked THEN Spent(beh) ELSE 0)
          /\ agent_failing' = IF out.invoked THEN (agent_failing # beh.flip)
                              ELSE agent_failing
          /\ invoked' = (invoked \/ out.invoked)
          /\ hist' = [hist EXCEPT !.invocations = @ + (IF out.invoked THEN 1 ELSE 0)]
          /\ wt' = out.w
          /\ index' = out.idx
          /\ head_tree' = out.tree
          /\ head' = out.h
          /\ policy' = out.policy
          /\ last' = Window("tuner", out.raised, out.result, out.violating,
                            out.result.passed /\ out.raised = "no", out.w)
          /\ tuner' = [tuner EXCEPT !.ran = TRUE, !.ok = out.ok,
                                    !.changed = out.result.changed_paths,
                                    !.new = out.result.new_paths,
                                    !.pre = [p \in out.result.changed_paths |->
                                                ContentIn(out.result.pre, p)]]
          /\ IF out.raised # "no"
             THEN Raise /\ UNCHANGED <<phase, step_idx, attempt, exec>>
             ELSE IF out.ok
             THEN /\ pc' = "step"
                  /\ phase' = "regression"
                  /\ step_idx' = 1
                  /\ attempt' = 0
                  /\ exec' = NewExec
                  /\ UNCHANGED <<policy_file, final, exit_code>>
             ELSE /\ FinishRun(baseline, out.policy)
                  /\ UNCHANGED <<phase, step_idx, attempt, exec>>
    /\ UNCHANGED <<design_b, backend_required, baseline, regression, sel, call>>

\* run_cmd waits for the process of codex_exec_step with subprocess.run and no
\* time limit: an agent that never exits keeps the call, and the run, waiting.
AgentHangs ==
    /\ pc \in {"bootstrap", "step", "tuner"}
    /\ pc # "bootstrap" => snapshot_state(wt, index, head_tree, head).staged = {}
    /\ pc' = "blocked"
    /\ UNCHANGED <<design_b, backend_required, wt, index, head_tree, head, policy,
                   policy_file, phase, step_idx, attempt, exec, baseline, regression,
                   final, tuner, exit_code, agent_failing, acts, invoked, last, hist, sel, call>>

Next ==
    Start \/ DryValidate \/ BootstrapRun \/ StepAttempt \/ Evaluate \/ TunerRun \/ AgentHangs

Spec == Init /\ [][Next]_vars

\* ---------------------------------------------------------------- selector
\* The selector on its own: one stats bucket, filled from empty by
\* select_variant and update_variant_stats as run_step_once calls them, under
\* the tunables of the policy document, which is read anew at every run.
SelVariantIds == {<<1, 2>>, <<1, 2, 3>>}

SelBootstrapMins == {1, 2}

SelPolicy(strategy, bootstrap_min) ==
    [DEFAULT_POLICY EXCEPT !.selection_strategy = strategy,
                           !.bootstrap_min_trials_per_variant = bootstrap_min,
                           !.commit_window_runs = SelCommitWindow,
                           !.elim_min_trials = SelElimMinTrials]

InitSel ==
    /\ pc = "selector"
    /\ design_b = FALSE
    /\ backend_required = FALSE
    /\ wt = [p \in Paths |-> Absent]
    /\ index = [p \in Paths |-> Absent]
    /\ head_tree = index
    /\ head = 0
    /\ policy = DEFAULT_POLICY
    /\ policy_file = [written |-> FALSE, doc |-> DEFAULT_POLICY]
    /\ phase = "baseline"
    /\ step_idx = 1
    /\ attempt = 0
    /\ exec = NewExec
    /\ baseline = NoSummary
    /\ regression = NoSummary
    /\ final = NoSummary
    /\ tuner = NoTuner
    /\ exit_code = NoExit
    /\ agent_failing = FALSE
    /\ acts = 0
    /\ invoked = FALSE
    /\ last = NoWindow
    /\ hist = NoHist
    /\ call = NoCall
    /\ \E ids \in SelVariantIds, strategy \in Strategies, bootstrap_min \in SelBootstrapMins :
          sel = [pc |-> "select", policy |-> SelPolicy(strategy, bootstrap_min),
                 bucket |-> empty_bucket, ids |-> ids, chosen |-> 0, not_clean_run |-> 0]

RunVars == <<pc, design_b, backend_required, wt, index, head_tree, head, policy,
                  policy_file, phase, step_idx, attempt, exec, baseline, regression, final,
                  tuner, exit_code, agent_failing, acts, invoked, last, hist>>

PipelineVars == <<pc, design_b, backend_required, wt, index, head_tree, head, policy,
                  policy_file, phase, step_idx, attempt, exec, baseline, regression, final,
                  tuner, exit_code, agent_failing, acts, invoked, last, hist, call>>

\* run_step_once's call of select_variant.
SelSelect ==
    /\ sel.pc = "select"
    /\ SumSeq(sel.ids, sel.bucket.attempts) < MaxTrials
    /\ \E out \in {select_variant(sel.policy, sel.bucket, sel.ids)} :
          sel' = [sel EXCEPT !.pc = "update", !.bucket = out.bucket, !.chosen = out.chosen]
    /\ UNCHANGED PipelineVars

\* run_step_once's call of update_variant_stats with the attempt's outcome.
\* not_clean_run counts, up to two, the attempts in a row in which the committed
\* variant was chosen and the outcome was not clean.
SelUpdate ==
    /\ sel.pc = "update"
    /\ \E passed \in BOOLEAN, step_attempt \in 0..(attempts_limit - 1) :
          sel' = [sel EXCEPT
                    !.pc = "select",
                    !.bucket = update_variant_stats(sel.policy, sel.bucket, sel.chosen,
                                                    passed, clean_of(passed, step_attempt)),
                    !.not_clean_run =
                        IF /\ sel.policy.selection_strategy = "explore_then_commit"
                           /\ sel.bucket.commit.active
                           /\ sel.bucket.commit.best = sel.chosen
                           /\ ~clean_of(passed, step_attempt)
                        THEN MinOf(2, @ + 1)
                        ELSE 0]
    /\ UNCHANGED PipelineVars

\* A later run reads the policy document with other tunables in it.
SelLoadPolicy ==
    /\ sel.pc = "select"
    /\ \E strategy \in Strategies, bootstrap_min \in SelBootstrapMins :
          /\ SelPolicy(strategy, bootstrap_min) # sel.policy
          /\ sel' = [sel EXCEPT !.policy = SelPolicy(strategy, bootstrap_min)]
    /\ UNCHANGED PipelineVars

NextSel == SelSelect \/ SelUpdate \/ SelLoadPolicy

SpecSel == InitSel /\ [][NextSel]_vars

\* The selector of an agent with one prompt variant under explore_then_commit,
\* followed far enough for the variant to have ten attempts.
InitCommit ==
    /\ pc = "selector"
    /\ design_b = FALSE
    /\ backend_required = FALSE
    /\ wt = [p \in Paths |-> Absent]
    /\ index = [p \in Paths |-> Absent]
    /\ head_tree = index
    /\ head = 0
    /\ policy = DEFAULT_POLICY
    /\ policy_file = [written |-> FALSE, doc |-> DEFAULT_POLICY]
    /\ phase = "baseline"
    /\ step_idx = 1
    /\ attempt = 0
    /\ exec = NewExec
    /\ baseline = NoSummary
    /\ regression = NoSummary
    /\ final = NoSummary
    /\ tuner = NoTuner
    /\ exit_code = NoExit
    /\ agent_failing = FALSE
    /\ acts = 0
    /\ invoked = FALSE
    /\ last = NoWindow
    /\ hist = NoHist
    /\ call = NoCall
    /\ \E bootstrap_min \in SelBootstrapMins :
          sel = [pc |-> "select", policy |-> SelPolicy("explore_then_commit", bootstrap_min),
                 bucket |-> empty_bucket, ids |-> <<1>>, chosen |-> 0, not_clean_run |-> 0]

CommitSelect ==
    /\ sel.pc = "select"
    /\ SumSeq(sel.ids, sel.bucket.attempts) < MaxCommitTrials
    /\ \E out \in {select_variant(sel.policy, sel.bucket, sel.ids)} :
          sel' = [sel EXCEPT !.pc = "update", !.bucket = out.bucket, !.chosen = out.chosen]
    /\ UNCHANGED PipelineVars

NextCommit == CommitSelect \/ SelUpdate

SpecCommit == InitCommit /\ [][NextCommit]_vars

\* The selector under rr_elimination with a fixed policy; call remembers the
\* last two selections: what was returned, and the non-eliminated variants
\* the selection chose from (none for a bootstrap selection).
NoRrSelection == [on |-> FALSE, chosen |-> 0, active |-> {}]

InitRr ==
    /\ pc = "selector"
    /\ design_b = FALSE
    /\ backend_required = FALSE
    /\ wt = [p \in Paths |-> Absent]
    /\ index = [p \in Paths |-> Absent]
    /\ head_tree = index
    /\ head = 0
    /\ policy = DEFAULT_POLICY
    /\ policy_file = [written |-> FALSE, doc |-> DEFAULT_POLICY]
    /\ phase = "baseline"
    /\ step_idx = 1
    /\ attempt = 0
    /\ exec = NewExec
    /\ baseline = NoSummary
    /\ regression = NoSummary
    /\ final = NoSummary
    /\ tuner = NoTuner
    /\ exit_code = NoExit
    /\ agent_failing = FALSE
    /\ acts = 0
    /\ invoked = FALSE
    /\ last = NoWindow
    /\ hist = NoHist
    /\ call = [op |-> "rr", last |-> NoRrSelection, before |-> NoRrSelection]
    /\ \E ids \in SelVariantIds, bootstrap_min \in SelBootstrapMins :
          sel = [pc |-> "select", policy |-> SelPolicy("rr_elimination", bootstrap_min),
                 bucket |-> empty_bucket, ids |-> ids, chosen |-> 0, not_clean_run |-> 0]

RrSelect ==
    /\ sel.pc = "select"
    /\ call.op = "rr"
    /\ SumSeq(sel.ids, sel.bucket.attempts) < MaxRrTrials
    /\ \E out \in {select_variant(sel.policy, sel.bucket, sel.ids)} :
          /\ sel' = [sel EXCEPT !.pc = "update", !.bucket = out.bucket, !.chosen = out.chosen]
          /\ call' = [call EXCEPT
                        !.before = call.last,
                        !.last = IF needs_bootstrap(sel.policy, sel.bucket.attempts, sel.ids)
                                 THEN NoRrSelection
                                 ELSE [on |-> TRUE, chosen |-> out.chosen,
                                       active |-> {sel.ids[i] : i \in 1..Len(sel.ids)}
                                                     \ sel.bucket.eliminated]]
    /\ UNCHANGED RunVars

NextRr == RrSelect \/ SelUpdate

SpecRr == InitRr /\ [][NextRr]_vars

\* ------------------------------------------------------- the test harness
\* TEST.md is whether it exists, whether it has the heading and a fenced block
\* after it, and the lines of the block; the profile of PROJECT_BRIEF.yaml is
\* whether the tests come from it, and its commands.
TestCommands == {"make test", "npm test"}
TestLines == TestCommands \cup {"", "# note"}
ExitCodes == {0, 1}
NoneValue == "None"

SeqsUpTo(S, n) == UNION {[1..k -> S] : k \in 0..n}

TestMds ==
    {[exists |-> FALSE, heading |-> FALSE, fenced |-> FALSE, lines |-> << >>]}
    \cup [exists : {TRUE}, heading : BOOLEAN, fenced : BOOLEAN,
          lines : SeqsUpTo(TestLines, MaxLines)]

TestProfiles == [from_profile : BOOLEAN, commands : SeqsUpTo(TestCommands, MaxProfiled)]

Range(q) == {q[i] : i \in 1..Len(q)}

parse_test_commands_from_test_md(md) ==
    LET lines == SelectSeq(md.lines, LAMBDA l : l # "" /\ l # "# note")
    IN IF ~md.heading \/ ~md.fenced \/ lines = << >>
       THEN [raised |-> "TEST_CMD_MISSING", commands |-> << >>]
       ELSE [raised |-> "no", commands |-> lines]

parse_profile_test_commands(profile, md) ==
    IF ~profile.from_profile THEN [raised |-> "no", none |-> TRUE, commands |-> << >>]
    ELSE IF profile.commands = << >>
    THEN [raised |-> "TEST_CMD_PROFILE_INVALID", none |-> FALSE, commands |-> << >>]
    ELSE IF ~(Range(profile.commands) \subseteq Range(md.lines))
    THEN [raised |-> "TEST_CMD_PROFILE_DOC_MISMATCH", none |-> FALSE, commands |-> << >>]
    ELSE [raised |-> "no", none |-> FALSE, commands |-> profile.commands]

TestsReturn(tests_ok, results, tests_error, commands) ==
    [raised |-> "no", tests_ok |-> tests_ok, results |-> results,
     tests_error |-> tests_error, resolved |-> commands # << >>, commands |-> commands]

\* The loop with every command run whatever the ones before it returned.
RECURSIVE run_commands_to_the_end(_, _, _, _)
run_commands_to_the_end(commands, exits, i, results) ==
    IF i > Len(commands)
    THEN TestsReturn(\A k \in 1..Len(results) : results[k].exit_code = 0, results,
                     IF \A k \in 1..Len(results) : results[k].exit_code = 0
                     THEN NoneValue ELSE "TEST_EXIT_NONZERO", commands)
    ELSE run_commands_to_the_end(commands, exits, i + 1,
             Append(results, [command |-> commands[i], exit_code |-> exits[i]]))

\* The loop of run_test_commands from its command i on; exits[i] is what
\* command i returns when it is run.
RECURSIVE run_commands(_, _, _, _)
run_commands(commands, exits, i, results) ==
    IF i > Len(commands) THEN TestsReturn(TRUE, results, NoneValue, commands)
    ELSE LET appended == Append(results, [command |-> commands[i], exit_code |-> exits[i]])
         IN IF exits[i] # 0
            THEN TestsReturn(FALSE, appended, "TEST_EXIT_NONZERO", commands)
            ELSE run_commands(commands, exits, i + 1, appended)

run_test_commands(md, profile, exits) ==
    IF ~md.exists THEN TestsReturn(FALSE, << >>, "TEST_MD_MISSING", << >>)
    ELSE LET profiled == parse_profile_test_commands(profile, md)
             parsed == parse_test_commands_from_test_md(md)
         IN IF profiled.raised # "no"
            THEN [TestsReturn(FALSE, << >>, NoneValue, << >>) EXCEPT !.raised = profiled.raised]
            ELSE IF ~profiled.none THEN run_commands(profiled.commands, exits, 1, << >>)
            ELSE IF parsed.raised # "no"
            THEN TestsReturn(FALSE, << >>, parsed.raised, << >>)
            ELSE run_commands(parsed.commands, exits, 1, << >>)

InitTests ==
    /\ pc = "tests"
    /\ design_b = FALSE
    /\ backend_required = FALSE
    /\ wt = [p \in Paths |-> Absent]
    /\ index = [p \in Paths |-> Absent]
    /\ head_tree = index
    /\ head = 0
    /\ policy = DEFAULT_POLICY
    /\ policy_file = [written |-> FALSE, doc |-> DEFAULT_POLICY]
    /\ phase = "baseline"
    /\ step_idx = 1
    /\ attempt = 0
    /\ exec = NewExec
    /\ baseline = NoSummary
    /\ regression = NoSummary
    /\ final = NoSummary
    /\ tuner = NoTuner
    /\ exit_code = NoExit
    /\ agent_failing = FALSE
    /\ acts = 0
    /\ invoked = FALSE
    /\ last = NoWindow
    /\ hist = NoHist
    /\ sel = SelIdle
    /\ \E md \in TestMds, profile \in TestProfiles :
          call = [op |-> "run_test_commands", md |-> md, profile |-> profile]

\* One call of run_test_commands; the commands return what the environment
\* makes them return.
TestsRun ==
    /\ call.op = "run_test_commands"
    /\ \E exits \in [1..MaxLines -> ExitCodes] :
          call' = [op |-> "returned", md |-> call.md, profile |-> call.profile,
                   exits |-> exits, out |-> run_test_commands(call.md, call.profile, exits)]
    /\ UNCHANGED <<RunVars, sel>>

NextTests == TestsRun

SpecTests == InitTests /\ [][NextTests]_vars

\* ------------------------------------------------ the guardrail validator
\* A file of the prompt library is the phrase its text contains, whether the
\* text is in capitals, whether it is over 64 KiB and, for a skill, the state
\* of its front matter.
FORBIDDEN_SUBSTRINGS ==
    {"ignore validators", "bypass allowlists", "write outside allowed paths",
     "mark step as done even if tests fail", "modify .orchestrator"}

GATING_BYPASS_SUBSTRINGS == {"disable gating", "proceed on failure"}

LibraryPhrases == FORBIDDEN_SUBSTRINGS \cup GATING_BYPASS_SUBSTRINGS \cup {"be concise"}

NoFile == [exists |-> FALSE, phrase |-> "be concise", capitals |-> FALSE,
           too_large |-> FALSE, front_matter |-> "ok"]

PromptFiles ==
    {NoFile} \cup [exists : {TRUE}, phrase : LibraryPhrases, capitals : BOOLEAN,
                   too_large : BOOLEAN, front_matter : {"ok"}]

SkillFiles ==
    {NoFile} \cup [exists : {TRUE}, phrase : LibraryPhrases, capitals : BOOLEAN,
                   too_large : BOOLEAN,
                   front_matter : {"ok", "missing", "unclosed", "keys_missing"}]

\* str.lower
lower(file) == [file EXCEPT !.capitals = FALSE]

\* bad in txt: the comparison is case-sensitive and bad is in small letters
contains(txt, bad) == txt.phrase = bad /\ ~txt.capitals

prompt_guardrail_codes(path) ==
    IF ~path.exists THEN {}
    ELSE (IF path.too_large THEN {"PROMPT_FILE_TOO_LARGE"} ELSE {})
         \cup (IF \E bad \in FORBIDDEN_SUBSTRINGS : contains(lower(path), bad)
               THEN {"PROMPT_FORBIDDEN_SUBSTRING"} ELSE {})
         \cup (IF \E bad \in GATING_BYPASS_SUBSTRINGS : contains(lower(path), bad)
               THEN {"PROMPT_GATING_BYPASS"} ELSE {})

skill_guardrail_codes(skill) ==
    IF ~skill.exists THEN {}
    ELSE (IF skill.too_large THEN {"SKILL_TOO_LARGE"} ELSE {})
         \cup (IF skill.front_matter \in {"missing", "unclosed"}
               THEN {"SKILL_FRONT_MATTER_MISSING"} ELSE {})
         \cup (IF skill.front_matter = "keys_missing"
               THEN {"SKILL_FRONT_MATTER_KEYS_MISSING"} ELSE {})
         \cup (IF \E bad \in FORBIDDEN_SUBSTRINGS : contains(lower(skill), bad)
               THEN {"SKILL_FORBIDDEN_SUBSTRING"} ELSE {})

\* validate_design_b_prompt_skill_guardrails on a library of one prompt file
\* and one skill file.
guardrails_of_library(prompt, skill) ==
    LET codes == prompt_guardrail_codes(prompt) \cup skill_guardrail_codes(skill)
    IN [ok |-> codes = {}, error_codes |-> codes]

InitGuard ==
    /\ pc = "guardrails"
    /\ design_b = TRUE
    /\ backend_required = FALSE
    /\ wt = [p \in Paths |-> Absent]
    /\ index = [p \in Paths |-> Absent]
    /\ head_tree = index
    /\ head = 0
    /\ policy = DEFAULT_POLICY
    /\ policy_file = [written |-> FALSE, doc |-> DEFAULT_POLICY]
    /\ phase = "baseline"
    /\ step_idx = 1
    /\ attempt = 0
    /\ exec = NewExec
    /\ baseline = NoSummary
    /\ regression = NoSummary
    /\ final = NoSummary
    /\ tuner = NoTuner
    /\ exit_code = NoExit
    /\ agent_failing = FALSE
    /\ acts = 0
    /\ invoked = FALSE
    /\ last = NoWindow
    /\ hist = NoHist
    /\ sel = SelIdle
    /\ \E prompt \in PromptFiles, skill \in SkillFiles :
          call = [op |-> "guardrails", prompt |-> prompt, skill |-> skill]

\* One call of the guardrail validator.
GuardValidate ==
    /\ call.op = "guardrails"
    /\ call' = [op |-> "returned", prompt |-> call.prompt, skill |-> call.skill,
                out |-> guardrails_of_library(call.prompt, call.skill)]
    /\ UNCHANGED <<RunVars, sel>>

NextGuard == GuardValidate

SpecGuard == InitGuard /\ [][NextGuard]_vars

\* --------------------------------------------------- the policy document
\* A JSON value is its type with its number (floats in tenths), its string or
\* its members; a JSON text is the same with the members as the list of
\* key-value pairs that json.dumps writes.
NoMembers == [k \in {} |-> 0]

JNum(n) == [t |-> "number", n |-> n, s |-> "", o |-> NoMembers]
JStr(str) == [t |-> "string", n |-> 0, s |-> str, o |-> NoMembers]
JObj(members) == [t |-> "object", n |-> 0, s |-> "", o |-> members]
JNull == [t |-> "null", n |-> 0, s |-> "", o |-> NoMembers]

\* isinstance(v, dict)
is_dict(v) == v.t = "object"

DEFAULT_POLICY_DOCUMENT ==
    [k \in {"version", "selection_strategy", "bootstrap_min_trials_per_variant", "ucb_c",
            "commit_window_runs", "elim_min_trials", "elim_min_mean_clean",
            "elim_max_failure_rate", "step_limits_overrides", "constraint_patches",
            "stats"} |->
       CASE k = "version" -> JNum(10)
         [] k = "selection_strategy" -> JStr("ucb1")
         [] k = "bootstrap_min_trials_per_variant" -> JNum(30)
         [] k = "ucb_c" -> JNum(10)
         [] k = "commit_window_runs" -> JNum(100)
         [] k = "elim_min_trials" -> JNum(60)
         [] k = "elim_min_mean_clean" -> JNum(1)
         [] k = "elim_max_failure_rate" -> JNum(9)
         [] OTHER -> JObj(NoMembers)]

\* The keys of the documents in the order sort_keys puts them in.
KeyOrder ==
    <<"bootstrap_min_trials_per_variant", "commit_window_runs", "constraint_patches",
      "elim_max_failure_rate", "elim_min_mean_clean", "elim_min_trials",
      "frontend::epoch", "notes", "selection_strategy", "stats", "step_limits_overrides",
      "ucb_c", "version">>

\* json.dumps(obj, sort_keys=True)
RECURSIVE json_dumps(_)
json_dumps(v) ==
    LET keys == SelectSeq(KeyOrder, LAMBDA k : k \in DOMAIN v.o)
    IN [t |-> v.t, n |-> v.n, s |-> v.s,
        m |-> [i \in 1..Len(keys) |-> <<keys[i], json_dumps(v.o[keys[i]])>>]]

\* json.loads: of the pairs with the same key the last one counts
RECURSIVE json_loads(_)
json_loads(x) ==
    LET last_of(k) == CHOOSE i \in 1..Len(x.m) :
                         x.m[i][1] = k /\ \A j \in (i + 1)..Len(x.m) : x.m[j][1] # k
    IN [t |-> x.t, n |-> x.n, s |-> x.s,
        o |-> [k \in {x.m[i][1] : i \in 1..Len(x.m)} |-> json_loads(x.m[last_of(k)][2])]]

NoPolicyFile == [exists |-> FALSE, text |-> json_dumps(JNull)]

write_json(obj) == [exists |-> TRUE, text |-> json_dumps(JObj(obj))]

load_json(path, default) == IF ~path.exists THEN default ELSE json_loads(path.text).o

\* The policy with the keys the defaults do not have dropped.
ensure_policy_shape_known_keys_only(document) ==
    [k \in DOMAIN DEFAULT_POLICY_DOCUMENT |->
        LET v == IF k \in DOMAIN document THEN document[k] ELSE DEFAULT_POLICY_DOCUMENT[k]
        IN IF k \in {"step_limits_overrides", "constraint_patches", "stats"} /\ ~is_dict(v)
           THEN JObj(NoMembers) ELSE v]

ensure_policy_shape(document) ==
    [k \in DOMAIN DEFAULT_POLICY_DOCUMENT \cup DOMAIN document |->
        LET v == IF k \in DOMAIN document THEN document[k] ELSE DEFAULT_POLICY_DOCUMENT[k]
        IN IF k \in {"step_limits_overrides", "constraint_patches", "stats"} /\ ~is_dict(v)
           THEN JObj(NoMembers) ELSE v]

\* The documents of the policy file: any of these keys is missing or has one
\* of these values.
DocumentValues ==
    [k \in {"selection_strategy", "ucb_c", "stats", "step_limits_overrides", "notes"} |->
       CASE k = "selection_strategy" -> {JStr("ucb1"), JStr("rr_elimination")}
         [] k = "ucb_c" -> {JNum(10), JNum(25)}
         [] k = "stats" -> {JObj(NoMembers), JNull, JNum(0),
                            JObj([a \in {"frontend::epoch"} |->
                                     JObj([b \in {"notes", "version"} |-> JNum(20)])])}
         [] k = "step_limits_overrides" -> {JObj(NoMembers), JStr("none")}
         [] OTHER -> {JStr("keep"), JObj([a \in {"version"} |-> JNum(30)])}]

PolicyDocuments ==
    UNION {{d \in [keys -> UNION {DocumentValues[k] : k \in keys}] :
               \A k \in keys : d[k] \in DocumentValues[k]} :
           keys \in SUBSET DOMAIN DocumentValues}

InitPolicy ==
    /\ pc = "policy"
    /\ design_b = FALSE
    /\ backend_required = FALSE
    /\ wt = [p \in Paths |-> Absent]
    /\ index = [p \in Paths |-> Absent]
    /\ head_tree = index
    /\ head = 0
    /\ policy = DEFAULT_POLICY
    /\ policy_file = [written |-> FALSE, doc |-> DEFAULT_POLICY]
    /\ phase = "baseline"
    /\ step_idx = 1
    /\ attempt = 0
    /\ exec = NewExec
    /\ baseline = NoSummary
    /\ regression = NoSummary
    /\ final = NoSummary
    /\ tuner = NoTuner
    /\ exit_code = NoExit
    /\ agent_failing = FALSE
    /\ acts = 0
    /\ invoked = FALSE
    /\ last = NoWindow
    /\ hist = NoHist
    /\ sel = SelIdle
    /\ \E p \in PolicyDocuments, on_disk \in BOOLEAN :
          call = [op |-> "load", p |-> p,
                  file |-> IF on_disk THEN write_json(p) ELSE NoPolicyFile,
                  shaped |-> DEFAULT_POLICY_DOCUMENT, reloaded |-> DEFAULT_POLICY_DOCUMENT]

\* run_pipeline reads the policy: the file if there is one, else the defaults.
PolicyLoad ==
    /\ call.op = "load"
    /\ call' = [call EXCEPT !.op = "save",
                            !.p = load_json(call.file, DEFAULT_POLICY_DOCUMENT),
                            !.shaped = ensure_policy_shape(
                                           load_json(call.file, DEFAULT_POLICY_DOCUMENT))]
    /\ UNCHANGED <<RunVars, sel>>

\* run_pipeline writes the policy at its end.
PolicySave ==
    /\ call.op = "save"
    /\ call' = [call EXCEPT !.op = "reload", !.file = write_json(call.shaped)]
    /\ UNCHANGED <<RunVars, sel>>

\* The next run reads it.
PolicyReload ==
    /\ call.op = "reload"
    /\ call' = [call EXCEPT !.op = "reloaded",
                            !.reloaded = ensure_policy_shape(
                                             load_json(call.file, DEFAULT_POLICY_DOCUMENT))]
    /\ UNCHANGED <<RunVars, sel>>

NextPolicy == PolicyLoad \/ PolicySave \/ PolicyReload

SpecPolicy == InitPolicy /\ [][NextPolicy]_vars

\* ------------------------------------------------- one step on its own
\* The attempts of one step of the catalog, from any of the states an
\* execution can reach it in: the files there are may carry changes of earlier
\* steps that were never committed, and the agent can act at every attempt.
SoloContents == {1, 2}

InitSolo ==
    /\ pc = "step"
    /\ design_b \in BOOLEAN
    /\ backend_required = TRUE
    /\ \E st \in RepoStates, c \in SoloContents :
          /\ wt = [p \in Paths |-> IF st[p] = "absent" THEN Absent
                                   ELSE IF p = REQUIREMENTS_MD THEN c ELSE 1]
          /\ index = [p \in Paths |-> IF st[p] = "tracked" THEN 1 ELSE Absent]
    /\ head_tree = index
    /\ head = 0
    /\ policy = DEFAULT_POLICY
    /\ policy_file = [written |-> FALSE, doc |-> DEFAULT_POLICY]
    /\ phase = "baseline"
    /\ step_idx \in 1..Len(default_steps(TRUE, TRUE))
    /\ attempt = 0
    /\ exec = NewExec
    /\ baseline = NoSummary
    /\ regression = NoSummary
    /\ final = NoSummary
    /\ tuner = NoTuner
    /\ exit_code = NoExit
    /\ agent_failing \in BOOLEAN
    /\ acts = MaxActs - attempts_limit
    /\ invoked = FALSE
    /\ last = NoWindow
    /\ hist = NoHist
    /\ sel = SelIdle
    /\ call = [op |-> "step", step_idx |-> step_idx]

\* The attempt loop of execute_specialist_steps for that step.
SoloStepAttempt ==
    /\ call.op = "step"
    /\ step_idx = call.step_idx
    /\ StepAttempt

NextSolo == SoloStepAttempt

SpecSolo == InitSolo /\ [][NextSolo]_vars

\* ------------------------------------------------- the bytes of a change set
\* The gate's byte count on its own: a worktree before the agent, the
\* worktree the agent leaves, and the total run_step_once compares with
\* max_total_bytes_changed.
Worktrees == [Paths -> {Absent} \cup Contents]

InitBytes ==
    /\ pc = "bytes"
    /\ design_b = FALSE
    /\ backend_required = FALSE
    /\ wt \in Worktrees
    /\ index = [p \in Paths |-> Absent]
    /\ head_tree = index
    /\ head = 0
    /\ policy = DEFAULT_POLICY
    /\ policy_file = [written |-> FALSE, doc |-> DEFAULT_POLICY]
    /\ phase = "baseline"
    /\ step_idx = 1
    /\ attempt = 0
    /\ exec = NewExec
    /\ baseline = NoSummary
    /\ regression = NoSummary
    /\ final = NoSummary
    /\ tuner = NoTuner
    /\ exit_code = NoExit
    /\ agent_failing = FALSE
    /\ acts = 0
    /\ invoked = FALSE
    /\ last = NoWindow
    /\ hist = NoHist
    /\ sel = SelIdle
    /\ call = [op |-> "bytes_changed_for_paths"]

\* The agent leaves the worktree w; the snapshots are diffed and the bytes of
\* the changed paths counted, as in run_step_once.
BytesCount ==
    /\ call.op = "bytes_changed_for_paths"
    /\ \E w \in Worktrees :
          LET pre == snapshot_state(wt, index, head_tree, head)
              post == snapshot_state(w, index, head_tree, head)
              d == changed_paths_from_snapshots(pre, post)
          IN /\ wt' = w
             /\ call' = [op |-> "returned", pre |-> pre.hashes, changed |-> d.changed,
                         deleted |-> d.deleted,
                         total_bytes |-> bytes_changed_for_paths(d.changed, pre, post, w)]
    /\ UNCHANGED <<pc, design_b, backend_required, index, head_tree, head, policy,
                   policy_file, phase, step_idx, attempt, exec, baseline, regression, final,
                   tuner, exit_code, agent_failing, acts, invoked, last, hist, sel>>

NextBytes == BytesCount

SpecBytes == InitBytes /\ [][NextBytes]_vars

\* ------------------------------------------------- the diff of two snapshots
\* The paths of the model as sorted() orders them: "." before "R" before "p".
PathsSorted == <<ORCH_FILE, REQUIREMENTS_MD, PROMPT_FILE>>

\* The loop of changed_paths_from_snapshots over the sorted paths, each list
\* appended to in the branch the path falls in.
RECURSIVE diff_loop(_, _, _, _)
diff_loop(all_paths, pre_h, post_h, acc) ==
    IF all_paths = << >> THEN acc
    ELSE LET p == Head(all_paths)
             in_pre == p \in DOMAIN pre_h
             in_post == p \in DOMAIN post_h
         IN diff_loop(Tail(all_paths), pre_h, post_h,
               IF ~in_pre /\ in_post
               THEN [acc EXCEPT !.changed = Append(@, p), !.new = Append(@, p)]
               ELSE IF in_pre /\ ~in_post
               THEN [acc EXCEPT !.changed = Append(@, p), !.deleted = Append(@, p)]
               ELSE IF in_pre /\ in_post /\ pre_h[p] # post_h[p]
               THEN [acc EXCEPT !.changed = Append(@, p)]
               ELSE acc)

\* A created path appended to new only.
changed_paths_lists_new_not_changed(pre, post) ==
    LET r == diff_loop(FilterSeq(PathsSorted, DOMAIN pre.hashes \cup DOMAIN post.hashes),
                       pre.hashes, post.hashes,
                       [changed |-> << >>, deleted |-> << >>, new |-> << >>])
    IN [r EXCEPT !.changed = FilterSeq(@, Range(@) \ Range(r.new))]

\* changed_paths_from_snapshots with its three results as the lists it returns.
changed_paths_lists(pre, post) ==
    diff_loop(FilterSeq(PathsSorted, DOMAIN pre.hashes \cup DOMAIN post.hashes),
              pre.hashes, post.hashes,
              [changed |-> << >>, deleted |-> << >>, new |-> << >>])

InitDiff ==
    /\ pc = "diff"
    /\ design_b = FALSE
    /\ backend_required = FALSE
    /\ wt = [p \in Paths |-> Absent]
    /\ index = [p \in Paths |-> Absent]
    /\ head_tree = index
    /\ head = 0
    /\ policy = DEFAULT_POLICY
    /\ policy_file = [written |-> FALSE, doc |-> DEFAULT_POLICY]
    /\ phase = "baseline"
    /\ step_idx = 1
    /\ attempt = 0
    /\ exec = NewExec
    /\ baseline = NoSummary
    /\ regression = NoSummary
    /\ final = NoSummary
    /\ tuner = NoTuner
    /\ exit_code = NoExit
    /\ agent_failing = FALSE
    /\ acts = 0
    /\ invoked = FALSE
    /\ last = NoWindow
    /\ hist = NoHist
    /\ sel = SelIdle
    /\ \E a \in Worktrees, b \in Worktrees :
          call = [op |-> "changed_paths_from_snapshots",
                  a |-> snapshot_state(a, index, head_tree, head),
                  b |-> snapshot_state(b, index, head_tree, head)]

\* The diff of a and b taken in both directions, and of a with itself.
DiffSnapshots ==
    /\ call.op = "changed_paths_from_snapshots"
    /\ call' = [op |-> "returned", a |-> call.a, b |-> call.b,
                ab |-> changed_paths_lists(call.a, call.b),
                ba |-> changed_paths_lists(call.b, call.a),
                aa |-> changed_paths_lists(call.a, call.a),
                sets |-> changed_paths_from_snapshots(call.a, call.b)]
    /\ UNCHANGED <<RunVars, sel>>

NextDiff == DiffSnapshots

SpecDiff == InitDiff /\ [][NextDiff]_vars

\* ------------------------------------------------ the score of an execution
\* execute_specialist_steps seen through its counters alone: an attempt is
\* what it adds to them, given whether it succeeded and how many files it
\* changed (none, or as many as a step may change).
ChangedCounts == {0, StepSpec("any", {}).max_changed_files}

InitScore ==
    /\ pc = "score_step"
    /\ design_b \in BOOLEAN
    /\ backend_required \in BOOLEAN
    /\ \E st \in RepoStates :
          wt = [p \in Paths |-> IF st[p] = "absent" THEN Absent ELSE 1]
    /\ index = [p \in Paths |-> Absent]
    /\ head_tree = index
    /\ head = 0
    /\ policy = DEFAULT_POLICY
    /\ policy_file = [written |-> FALSE, doc |-> DEFAULT_POLICY]
    /\ phase = "baseline"
    /\ step_idx = 1
    /\ attempt = 0
    /\ exec = NewExec
    /\ baseline = NoSummary
    /\ regression = NoSummary
    /\ final = NoSummary
    /\ tuner = NoTuner
    /\ exit_code = NoExit
    /\ agent_failing = FALSE
    /\ acts = 0
    /\ invoked = FALSE
    /\ last = NoWindow
    /\ hist = NoHist
    /\ sel = SelIdle
    /\ call = NoCall

\* One iteration of the attempt loop, for the counters.
ScoreAttempt ==
    /\ pc = "score_step"
    /\ \E success \in BOOLEAN, changed_count \in ChangedCounts :
       \E exhausted \in {budget_exhausted(success, attempt)} :
       \E fixer_ok \in {exhausted /\ run_fixer_if_possible(fixer_failure_codes)} :
          /\ exec' = tally(exec, changed_count, success, attempt, fixer_ok,
                           exhausted /\ ~fixer_ok)
          /\ hist' = [hist EXCEPT !.invocations = @ + 1]
          /\ IF (success \/ fixer_ok) /\ step_idx < Len(Steps)
             THEN pc' = pc /\ step_idx' = step_idx + 1 /\ attempt' = 0
             ELSE IF success \/ exhausted
             THEN pc' = "score_evaluate" /\ UNCHANGED <<step_idx, attempt>>
             ELSE pc' = pc /\ attempt' = attempt + 1 /\ UNCHANGED step_idx
    /\ UNCHANGED <<design_b, backend_required, wt, index, head_tree, head, policy,
                   policy_file, phase, baseline, regression, final, tuner, exit_code,
                   agent_failing, acts, invoked, last, sel, call>>

\* The validators, the tests and the score at the end of the execution.
ScoreSummary ==
    /\ pc = "score_evaluate"
    /\ \E tests_ok \in BOOLEAN :
          baseline' = summary_of(design_b, exec, wt, tests_ok)
    /\ pc' = "scored"
    /\ UNCHANGED <<design_b, backend_required, wt, index, head_tree, head, policy,
                   policy_file, phase, step_idx, attempt, exec, regression, final, tuner,
                   exit_code, agent_failing, acts, invoked, last, hist, sel, call>>

NextScore == ScoreAttempt \/ ScoreSummary

SpecScore == InitScore /\ [][NextScore]_vars

\* -------------------------------------------------------------- properties
RunEnded == pc \in {"done", "raised"}

\* The run reached run_pipeline's final result.
Completed == pc = "done" /\ final.set

Staged == {p \in Paths : index[p] # head_tree[p]}

\* C1: after the revert of a step attempt's violating change set, the
\* worktree agrees with the pre snapshot on every changed and every new path.
C1_RevertRestoresPre ==
    (last.kind = "step" /\ last.violating) => last.restored

\* C2: when the run has ended, HEAD is the commit it was at the start and
\* nothing is staged, as at the start.
C2_HeadAndStagedPreserved ==
    RunEnded => (head = 0 /\ Staged = {})

\* C3: a window whose diff holds a path under .git or .orchestrator is marked
\* for revert, is not counted as passed, and leaves no such path modified.
C3_ForbiddenChangeUndone ==
    last.forbidden => (last.violating /\ ~last.passed /\ ~last.forbidden_kept)

\* C4: a run in which the diff of some step attempt held a path under
\* .orchestrator ends with the invariant code, never with success.
C4_OrchestratorChangeIsInvariantExit ==
    (RunEnded /\ hist.orch_in_step_diff) => exit_code = CODE_INVARIANT

\* C5: when the tuner passed, its changes are accepted exactly when the
\* regression scores above the baseline with validators and tests passing and
\* no hard invalidity; the final result is the regression summary exactly when
\* they are accepted and the baseline summary otherwise.
C5_AcceptanceRule ==
    LET better == /\ regression.score > baseline.score
                  /\ regression.validators_ok
                  /\ regression.tests_ok
                  /\ ~regression.hard_invalid
    IN /\ (tuner.ok /\ tuner.regression_ran) => (tuner.accepted <=> better)
       /\ (RunEnded /\ tuner.ok) =>
             final = IF tuner.regression_ran /\ better THEN regression ELSE baseline

C5_Witness ==
    /\ pc = "done"
    /\ tuner.ok
    /\ tuner.accepted
    /\ final = regression
    /\ final # baseline

C7_ExitCodePriority ==
    /\ exit_code # CODE_ALLOWLIST
    /\ Completed =>
          /\ exit_code = (IF final.hard_invalid THEN 4
                          ELSE IF ~final.validators_ok THEN 6
                          ELSE IF ~final.tests_ok THEN 7
                          ELSE 0)
          /\ (exit_code = 0 =>
                 ~final.hard_invalid /\ final.validators_ok /\ final.tests_ok)

C7_Witness ==
    /\ Completed
    /\ ~final.hard_invalid
    /\ ~final.validators_ok
    /\ ~final.tests_ok
    /\ exit_code = CODE_VALIDATION

\* C8: a run that invoked the agent has written the policy document when it
\* has ended.
C8_PolicySavedAfterInvocation ==
    (RunEnded /\ invoked) => policy_file.written

SelCounters(b, v) == <<Get(b.clean_passes, v), Get(b.passes, v), Get(b.attempts, v)>>

SelVariants == {sel.ids[i] : i \in 1..Len(sel.ids)}

\* C9: for every variant clean_passes <= passes <= attempts, and no call of
\* select_variant or update_variant_stats lowers any of the three.
C9_CountersOrderedAndMonotone ==
    /\ [](\A v \in SelVariants :
             LET c == SelCounters(sel.bucket, v) IN c[1] <= c[2] /\ c[2] <= c[3])
    /\ [][\A v \in SelVariants : \A k \in 1..3 :
             SelCounters(sel'.bucket, v)[k] >= SelCounters(sel.bucket, v)[k]]_vars

C9_Witness ==
    /\ sel.pc = "select"
    /\ \E v \in SelVariants :
          LET c == SelCounters(sel.bucket, v) IN 0 < c[1] /\ c[1] < c[2] /\ c[2] < c[3]

\* Some variant has fewer attempts than the bootstrap minimum.
SelInBootstrap ==
    \E v \in SelVariants :
        Get(sel.bucket.attempts, v) < sel.policy.bootstrap_min_trials_per_variant

\* C10: while some variant is below the bootstrap minimum, select_variant
\* returns ids[(last_rr_index + 1) mod n] and stores that index, under every
\* strategy, and leaves the commit state and the eliminated set as they were.
C10_BootstrapRoundRobin ==
    [][(sel.pc = "select" /\ sel'.pc = "update" /\ SelInBootstrap) =>
          LET rr_index == (sel.bucket.last_rr_index + 1) % Len(sel.ids)
          IN /\ sel'.chosen = sel.ids[rr_index + 1]
             /\ sel'.bucket.last_rr_index = rr_index
             /\ sel'.bucket.commit = sel.bucket.commit
             /\ sel'.bucket.eliminated = sel.bucket.eliminated]_vars

C10_Witness ==
    /\ sel.pc = "update"
    /\ SelInBootstrap
    /\ sel.bucket.commit.active
    /\ sel.bucket.eliminated # {}
    /\ sel.chosen = sel.ids[sel.bucket.last_rr_index + 1]

\* The names of the steps of this run's catalog, in order.
StepNames == [i \in 1..Len(Steps) |-> Steps[i].name]

\* C11: the steps of one execution are release_engineer, requirements,
\* designer, frontend, backend (only when required), qa, docs in this order;
\* an execution starts at the first step with its first attempt, a step's
\* attempts are consecutive, and the next step's first attempt follows only a
\* passed attempt of the step before.
C11_CatalogOrderSequential ==
    /\ [](StepNames = <<"release_engineer", "requirements", "designer", "frontend">>
                      \o (IF backend_required THEN <<"backend">> ELSE << >>)
                      \o <<"qa", "docs">>)
    /\ [][(pc # "step" /\ pc' = "step") => (step_idx' = 1 /\ attempt' = 0)]_vars
    /\ [][(pc = "step" /\ pc' = "step" /\ phase' = phase) =>
             \/ step_idx' = step_idx /\ attempt' = attempt + 1 /\ ~last'.passed
             \/ step_idx' = step_idx + 1 /\ attempt' = 0 /\ last'.passed]_vars

C11_Witness ==
    /\ pc = "step"
    /\ phase = "regression"
    /\ backend_required
    /\ Steps[step_idx].name = "docs"
    /\ attempt = 1

\* How far the run has come: every step of the run moves it forward.
Progress ==
    LET per == attempts_limit * Len(Steps) + 1
        at == (step_idx - 1) * attempts_limit + attempt
        base == IF phase = "baseline" THEN 2 ELSE per + 3
    IN CASE pc = "start" -> 0
         [] pc = "bootstrap" -> 1
         [] pc = "step" -> base + at
         [] pc = "evaluate" -> base + per - 1
         [] pc = "tuner" -> per + 2
         [] OTHER -> 2 * per + 3

\* C12: no step gets more than three attempts in one execution, no attempt of
\* a step follows a successful one, the run invokes the agent at most twice
\* outside the executions and three times per step in each of at most two
\* executions; every step of the run moves it forward on a bounded scale, a
\* run that has not ended and waits for no agent can take a step, and a run
\* that has ended has an exit code.
C12_AttemptsBoundedRunEnds ==
    /\ [](attempt \in 0..2)
    /\ [](hist.invocations <= 2 + 2 * 3 * Len(Steps))
    /\ [][(pc = "step" /\ pc' = "step" /\ phase' = phase /\ step_idx' = step_idx) =>
             (attempt' = attempt + 1 /\ ~last'.passed)]_vars
    /\ [][Progress' > Progress]_vars
    /\ [](RunEnded \/ pc = "blocked" \/ ENABLED Next)
    /\ [](RunEnded => exit_code \in {0, 3, 4, 6, 7})

C12_Witness ==
    /\ pc = "done"
    /\ phase = "regression"
    /\ exec.hard_invalid
    /\ attempt = 2
    /\ hist.invocations >= Len(Steps) + 4

\* C13: an agent that does not return is terminated and its attempt fails, so
\* a run that waits for an agent can always take a step.
C13_HangingAgentTerminated == pc = "blocked" => ENABLED Next

\* The score the formula gives a summary.
ScoreFormula(s) ==
    MaxOf(0, 40 * (IF s.required_ok THEN 1 ELSE 0)
             + 30 * (IF s.validators_ok THEN 1 ELSE 0)
             + 30 * (IF s.tests_ok THEN 1 ELSE 0)
             - 5 * s.retries_beyond_first_total
             - 10 * s.fixer_runs_total
             - MaxOf(0, s.changed_files_total - 20))

\* Every step of the execution passed on its first attempt, and the
\* validators and the tests are fine.
CleanExecution ==
    /\ baseline.set
    /\ ~baseline.hard_invalid
    /\ step_idx = Len(Steps)
    /\ hist.invocations = Len(Steps)
    /\ baseline.validators_ok
    /\ baseline.tests_ok

\* C14: the score is 0 without the library feature, -1 for a hard-invalid
\* execution and the clamped formula otherwise, so it lies in {-1} \cup 0..100;
\* an execution whose steps all pass on their first attempt with validators and
\* tests fine has no retries, no fixer runs and, with the library feature, the
\* score 100 - max(0, changed_files_total - 20) clamped at 0.
C14_ScoreFormulaAndRange ==
    baseline.set =>
       /\ ~design_b => baseline.score = 0
       /\ design_b /\ baseline.hard_invalid => baseline.score = -1
       /\ design_b /\ ~baseline.hard_invalid => baseline.score = ScoreFormula(baseline)
       /\ baseline.score \in {-1} \cup 0..100
       /\ CleanExecution =>
             /\ baseline.retries_beyond_first_total = 0
             /\ baseline.fixer_runs_total = 0
             /\ design_b =>
                   baseline.score = MaxOf(0, 100 - MaxOf(0, baseline.changed_files_total - 20))

C14_Witness ==
    CleanExecution /\ design_b /\ baseline.changed_files_total > 120 /\ baseline.score = 0

\* C14 as stated: the clean execution's score is 100 - max(0,
\* changed_files_total - 20), with no clamp.
C14_CleanScoreUnclamped ==
    (CleanExecution /\ design_b) =>
       baseline.score = 100 - MaxOf(0, baseline.changed_files_total - 20)

\* C15: a dry validation invokes no agent, takes no snapshot, reverts nothing
\* and leaves the workspace, the index, the commits and the policy document as
\* they were; it ends in one step having written dry_validate.json with what
\* the validators and the tests said, and it exits 6 if a validator failed,
\* else 7 if the tests failed, else 0, so 6 on a workspace without artifacts.
C15_DryValidateOnlyValidates ==
    /\ [][phase' = "dry_validate" =>
             /\ pc = "start" /\ RunEnded'
             /\ <<wt, index, head_tree, head, policy, policy_file>>' =
                   <<wt, index, head_tree, head, policy, policy_file>>
             /\ ~invoked' /\ hist'.invocations = 0 /\ last' = NoWindow
             /\ final' = NoSummary]_vars
    /\ [](phase = "dry_validate" /\ pc = "done" =>
             /\ hist.dry_validate.written
             /\ hist.dry_validate.validators_ok = validate_all(design_b, wt)
             /\ exit_code = IF ~hist.dry_validate.validators_ok THEN 6
                            ELSE IF ~hist.dry_validate.tests_ok THEN 7 ELSE 0
             /\ (\A p \in Paths : wt[p] = Absent) => exit_code = 6)
    /\ [](phase # "dry_validate" => ~hist.dry_validate.written)

C15_Witness ==
    /\ phase = "dry_validate" /\ pc = "done" /\ exit_code = 7
    /\ hist.dry_validate.validators_ok /\ ~hist.dry_validate.tests_ok

\* The first command of the call that returns non-zero, 0 if there is none.
FirstFailing ==
    LET cmds == call.out.commands
        bad == {i \in 1..Len(cmds) : call.exits[i] # 0}
    IN IF bad = {} THEN 0 ELSE CHOOSE i \in bad : \A j \in bad : i <= j

\* C16: when the harness has resolved its commands, its results are the
\* commands in order with what each returned, up to and including the first
\* that returned non-zero (all of them if none did); tests_error is
\* TEST_EXIT_NONZERO when one did, and tests_ok holds exactly when there is a
\* result for every command and every result is 0.
C16_ResultsArePrefixToFirstFailure ==
    (call.op = "returned" /\ call.out.raised = "no" /\ call.out.resolved) =>
       LET cmds == call.out.commands
           res == call.out.results
       IN /\ Len(res) = IF FirstFailing = 0 THEN Len(cmds) ELSE FirstFailing
          /\ \A i \in 1..Len(res) :
                res[i] = [command |-> cmds[i], exit_code |-> call.exits[i]]
          /\ FirstFailing # 0 => call.out.tests_error = "TEST_EXIT_NONZERO"
          /\ FirstFailing = 0 => call.out.tests_error = NoneValue
          /\ call.out.tests_ok <=>
                (Len(res) = Len(cmds) /\ \A i \in 1..Len(res) : res[i].exit_code = 0)

C16_Witness ==
    /\ call.op = "returned" /\ call.out.raised = "no" /\ call.out.resolved
    /\ Len(call.out.commands) = 3 /\ Len(call.out.results) = 2
    /\ call.exits[3] = 0 /\ ~call.out.tests_ok

\* The text of the file contains one of the seven phrases, in any case.
HasForbiddenPhrase(file) ==
    file.exists /\ file.phrase \in FORBIDDEN_SUBSTRINGS \cup GATING_BYPASS_SUBSTRINGS

\* C17: the guardrail validator fails whenever the prompt file or the skill
\* file contains, in any case, one of the seven forbidden phrases.
C17_SevenPhrasesForPromptsAndSkills ==
    (call.op = "returned" /\ (HasForbiddenPhrase(call.prompt) \/ HasForbiddenPhrase(call.skill)))
       => ~call.out.ok

\* C18: the policy a run works with has, for every key its document lacks,
\* the default value, and every other key of the document with the
\* document's value; shaping it again changes nothing; and the policy read
\* back from what was saved is the policy that was saved.
C18_PolicyRoundTrip ==
    call.op \in {"save", "reload", "reloaded"} =>
       /\ \A k \in DOMAIN DEFAULT_POLICY_DOCUMENT \ DOMAIN call.p :
             call.shaped[k] = DEFAULT_POLICY_DOCUMENT[k]
       /\ \A k \in DOMAIN call.p \ DOMAIN DEFAULT_POLICY_DOCUMENT :
             k \in DOMAIN call.shaped /\ call.shaped[k] = call.p[k]
       /\ ensure_policy_shape(call.shaped) = call.shaped
       /\ call.op = "reloaded" => call.reloaded = call.shaped

C18_Witness ==
    /\ call.op = "reloaded"
    /\ "notes" \in DOMAIN call.p /\ call.p["notes"].t = "object"
    /\ "stats" \in DOMAIN call.p /\ call.p["stats"].t = "null"
    /\ "ucb_c" \notin DOMAIN call.p
    /\ call.reloaded["stats"] = JObj(NoMembers)

\* All variants have the same attempts, passes and clean passes.
SelAllEqual ==
    \A v, u \in SelVariants : SelCounters(sel.bucket, v) = SelCounters(sel.bucket, u)

\* C19: past the bootstrap, under every strategy, when all variants have the
\* same attempts, passes and clean passes the variant select_variant has just
\* returned is the least id.
C19_EqualStatsSelectLeastId ==
    (sel.pc = "update" /\ ~SelInBootstrap /\ SelAllEqual) => sel.chosen = sel.ids[1]

\* C20: after a step attempt that did not pass, whether by gating errors or
\* by the agent's exit code alone, the worktree agrees with the attempt's pre
\* snapshot on every path the attempt changed or created.
C20_FailedAttemptLeavesPreSnapshot ==
    (last.kind = "step" /\ last.raised = "no" /\ ~last.passed) => last.restored

\* A step attempt has just failed, and the step is still the current one.
AttemptJustFailed ==
    last.kind = "step" /\ last.raised = "no" /\ ~last.passed /\ pc \in {"step", "evaluate"}

\* C21: after a failed step attempt, whether it failed by gating errors or by
\* the agent's exit code, the policy holds the step's tightened limits (0.8
\* of the caps with floors 5 and 20000, deletions 0) and a constraint patch
\* for the step that names the failure code.
C21_FailureTightensAndPatches ==
    AttemptJustFailed =>
       LET step == Steps[step_idx]
       IN /\ step.name \in DOMAIN policy.step_limits_overrides
          /\ policy.step_limits_overrides[step.name] =
                [max_changed_files |-> 48, max_total_bytes_changed |-> 400000,
                 max_deleted_files |-> 0]
          /\ step.name \in DOMAIN policy.constraint_patches
          /\ policy.constraint_patches[step.name]
                \in {"ALLOWLIST_OR_INVARIANT_FAIL", "CODEX_EXIT_NONZERO"}

\* The step has failed its three attempts by allowlist errors alone.
ThreeAllowlistFailures == AttemptJustFailed /\ hist.allowlist_streak.n = attempts_limit

\* C22: when a step has failed its three attempts by allowlist errors alone,
\* every one of the attempts left the pre snapshot behind, the agent was
\* invoked for the three attempts and for no fixer, the execution is
\* hard-invalid and stops at the step, and the policy's changed-files limit
\* for the step lies below the step's own.
C22_ThreeAllowlistFailures ==
    ThreeAllowlistFailures =>
       /\ hist.allowlist_streak.restored
       /\ hist.invocations = attempts_limit
       /\ exec.fixer_runs_total = 0
       /\ exec.hard_invalid
       /\ pc = "evaluate" /\ step_idx = call.step_idx
       /\ Steps[step_idx].name \in DOMAIN policy.step_limits_overrides
       /\ policy.step_limits_overrides[Steps[step_idx].name].max_changed_files
             < Steps[step_idx].max_changed_files

\* The step has used up its attempts without success.
StepExhausted == AttemptJustFailed /\ pc = "evaluate"

\* C23: when a step has used up its attempts and a validator failure of the
\* fixer-supported set is there to fix, the agent has been invoked once more
\* than for the attempts, as the fixer.
C23_SupportedFailureRunsFixerOnce ==
    (StepExhausted /\ validator_error_codes(design_b, wt) \cap fixer_supported # {})
       => hist.invocations = attempts_limit + 1

\* C24: a step attempt that changed a lock-protected file without the
\* matching can_modify flag (no specialist step has one for the prompt
\* library) is not a pass, and the workspace has the file as it was before the
\* attempt.
C24_LockViolationFailsAndIsReverted ==
    (last.kind = "step" /\ last.locked
        /\ lock_violation_in_changes(Steps[step_idx], lock_protected(Paths), design_b) # {})
       => (~last.passed /\ ~last.locked_kept)

\* C25: when the restore of a violating change set has failed, the run has
\* ended with the invariant-violation exit code.
C25_FailedRevertExitsInvariant ==
    (last.violating /\ last.raised = "CMD_FAILED") => (pc = "raised" /\ exit_code = CODE_INVARIANT)

\* The bootstrap agent has run and its change set was refused.
BootstrapFailed == last.kind = "bootstrap" /\ last.violating

\* C26: when the bootstrap pseudo-step has failed, the workspace has its
\* changed and new paths as before the bootstrap, the bootstrap agent is the
\* only agent that was invoked, the policy has been saved and the run has
\* ended with exit code 6.
C26_FailedBootstrapRevertsAndExits ==
    BootstrapFailed =>
       /\ last.restored
       /\ hist.invocations = 1
       /\ policy_file.written
       /\ pc = "done" /\ exit_code = CODE_VALIDATION

\* C27: when the execution of a single step has ended, the retry counter is
\* the attempt index at which the step succeeded, or the number of attempts
\* when it never succeeded.
C27_RetriesCountAttempts ==
    (pc = "evaluate" /\ last.kind = "step" /\ last.raised = "no" /\ step_idx = call.step_idx)
       => exec.retries_beyond_first_total = (IF last.passed THEN attempt ELSE attempts_limit)

\* C28: while no attempt of the only step executed has succeeded, the count
\* of changed files is zero: failed attempts add nothing to it.
C28_FailedAttemptsAddNoChangedFiles ==
    (AttemptJustFailed /\ step_idx = call.step_idx) => exec.changed_files_total = 0

\* C29: the total compared with the byte cap is the sum, over the changed
\* paths, of the size the file has after the step when it still exists and of
\* the size it had before the step when it was deleted.
C29_BytesCountPreSizeOfDeleted ==
    (call.op = "returned" /\ pc = "bytes") =>
       call.total_bytes =
          SumOver(call.changed,
                  [p \in call.changed |->
                      IF wt[p] # Absent THEN file_size(wt[p])
                      ELSE file_size(ContentIn(call.pre, p))])

\* select_variant has just elected a variant under explore_then_commit: the
\* commit window is at its start.
SelJustElected ==
    /\ sel.pc = "update"
    /\ sel.policy.selection_strategy = "explore_then_commit"
    /\ ~SelInBootstrap
    /\ sel.bucket.commit.active
    /\ sel.bucket.commit.remaining = sel.policy.commit_window_runs - 1

\* C30: every election under explore_then_commit, a re-election after a
\* release included, returns the elected variant and leaves the commit state
\* with the counter of consecutive not-clean attempts at zero.
C30_ElectionResetsCounter ==
    SelJustElected =>
       /\ sel.chosen = sel.bucket.commit.best
       /\ sel.bucket.commit.consecutive_not_clean_best = 0

\* The variant with the highest mean-clean of the bucket, the least id among
\* equals.
SelMeanBest ==
    CHOOSE v \in SelVariants : \A u \in SelVariants \ {v} :
        LET nv == Get(sel.bucket.clean_passes, v) * MaxOf(1, Get(sel.bucket.attempts, u))
            nu == Get(sel.bucket.clean_passes, u) * MaxOf(1, Get(sel.bucket.attempts, v))
        IN nv > nu \/ (nv = nu /\ v < u)

SelEtc == sel.policy.selection_strategy = "explore_then_commit"

\* C31: under explore_then_commit, after two not-clean attempts in a row of
\* the committed variant the commit is inactive with remaining 0; the next
\* selection elects the variant with the best mean-clean of the updated
\* counters and starts a new window; a clean pass of the committed variant
\* sets the counter of consecutive not-clean attempts to 0.
C31_TwoNotCleanReleaseCommit ==
    /\ []((sel.pc = "select" /\ sel.not_clean_run = 2) =>
             (~sel.bucket.commit.active /\ sel.bucket.commit.remaining = 0))
    /\ [][(sel.pc = "select" /\ sel'.pc = "update" /\ sel.not_clean_run = 2
              /\ SelEtc /\ ~SelInBootstrap) =>
             /\ sel'.chosen = SelMeanBest
             /\ sel'.bucket.commit.active
             /\ sel'.bucket.commit.best = SelMeanBest
             /\ sel'.bucket.commit.remaining = sel.policy.commit_window_runs - 1]_vars
    /\ [][(sel.pc = "update" /\ sel'.pc = "select" /\ SelEtc
              /\ sel.bucket.commit.best = sel.chosen
              /\ Get(sel'.bucket.clean_passes, sel.chosen) > Get(sel.bucket.clean_passes, sel.chosen)) =>
             sel'.bucket.commit.consecutive_not_clean_best = 0]_vars

\* The committed variant was released after two not-clean attempts in a row,
\* and the selection after that has elected a variant again.
C31_Witness ==
    /\ sel.pc = "update"
    /\ sel.not_clean_run = 2
    /\ SelEtc /\ ~SelInBootstrap
    /\ sel.bucket.commit.active
    /\ sel.bucket.commit.remaining = sel.policy.commit_window_runs - 1

\* C32: under explore_then_commit, after the update of an attempt of the
\* committed variant, the commit is inactive when the variant has at least
\* ten attempts and a mean-clean below 0.3, whatever the outcome recorded.
C32_LowMeanCleanReleasesCommit ==
    (/\ sel.pc = "select" /\ SelEtc
     /\ sel.bucket.commit.best = sel.chosen
     /\ Get(sel.bucket.attempts, sel.chosen) >= 10
     /\ 10 * Get(sel.bucket.clean_passes, sel.chosen) < 3 * Get(sel.bucket.attempts, sel.chosen))
       => ~sel.bucket.commit.active

\* C33: under rr_elimination after bootstrap, two selections in a row from
\* the same two non-eliminated variants return the one and then the other,
\* wherever the eliminated variant stands in the sorted list.
C33_RoundRobinVisitsEachActive ==
    (/\ sel.pc = "update" /\ call.op = "rr"
     /\ call.last.on /\ call.before.on
     /\ call.last.active = call.before.active
     /\ Cardinality(call.last.active) = 2)
       => call.last.chosen # call.before.chosen

\* C34: after every call of select_variant the eliminated set of the bucket
\* is a proper subset of the variants: a set that would hold all of them has
\* been reset to empty.
C34_EliminatedIsProperSubset ==
    sel.pc = "update" =>
       (sel.bucket.eliminated \subseteq SelVariants /\ sel.bucket.eliminated # SelVariants)

\* C35: the policy document is written only when no agent is invoked any more
\* in the run: the run is done once it is written and no invocation follows
\* the write; and every window of the run with a pre and a post snapshot
\* holds exactly one agent invocation.
C35_PolicyWrittenAfterAllInvocations ==
    /\ [](policy_file.written => pc = "done")
    /\ [][policy_file.written => hist'.invocations = hist.invocations]_vars
    /\ [][(last' # last /\ last'.raised # "PRE_STAGED_NOT_EMPTY") =>
             hist'.invocations = hist.invocations + 1]_vars

\* A run of several agent invocations has ended and written the policy.
C35_Witness ==
    pc = "done" /\ policy_file.written /\ hist.invocations >= 2 /\ last.kind = "step"

\* The positions in PathsSorted of the paths of a list increase.
SortedByPath(q) ==
    \A i, j \in 1..Len(q) : i < j => IndexOf(PathsSorted, q[i]) < IndexOf(PathsSorted, q[j])

\* C36: the diff of two snapshots follows from their path-to-hash maps alone:
\* new is the paths of the second map only, deleted the paths of the first
\* only, changed is these and the paths of both with different hashes, the
\* three parts disjoint and each list sorted by path; the diff of a snapshot
\* with itself is empty; the diff taken the other way round has new and
\* deleted swapped and the same modified paths.
C36_DiffOfSnapshots ==
    (pc = "diff" /\ call.op = "returned") =>
       LET a == call.a.hashes
           b == call.b.hashes
           created == DOMAIN b \ DOMAIN a
           removed == DOMAIN a \ DOMAIN b
           modified == {p \in DOMAIN a \cap DOMAIN b : a[p] # b[p]}
           modified_of(d) == Range(d.changed) \ (Range(d.new) \cup Range(d.deleted))
       IN /\ Range(call.ab.new) = created
          /\ Range(call.ab.deleted) = removed
          /\ Range(call.ab.changed) = created \cup modified \cup removed
          /\ modified_of(call.ab) = modified
          /\ Range(call.ab.new) \cap Range(call.ab.deleted) = {}
          /\ Len(call.ab.changed) = Cardinality(created) + Cardinality(modified) + Cardinality(removed)
          /\ SortedByPath(call.ab.changed) /\ SortedByPath(call.ab.new) /\ SortedByPath(call.ab.deleted)
          /\ call.aa = [changed |-> << >>, deleted |-> << >>, new |-> << >>]
          /\ call.ba.new = call.ab.deleted
          /\ call.ba.deleted = call.ab.new
          /\ call.ba.changed = call.ab.changed
          /\ modified_of(call.ba) = modified_of(call.ab)
          /\ call.sets = [changed |-> Range(call.ab.changed), deleted |-> Range(call.ab.deleted), new |-> Range(call.ab.new)]

\* A diff with a created, a modified and a deleted path.
C36_Witness ==
    /\ pc = "diff" /\ call.op = "returned"
    /\ call.ab.new # << >> /\ call.ab.deleted # << >>
    /\ Len(call.ab.changed) = 3

\* C37: after a window whose change set was reverted, every file outside the
\* changed and new paths has the content it had before the window, the work
\* of earlier steps included.
C37_RevertKeepsOtherFiles ==
    (last.violating /\ last.raised = "no") => last.frame_kept

\* A change set was reverted while another file held work that is not in the
\* index.
C37_Witness ==
    /\ last.kind = "step" /\ last.violating /\ last.raised = "no"
    /\ \E p \in Paths : wt[p] # Absent /\ index[p] # Absent /\ wt[p] # index[p]

\* C38: a second gating failure in a row of a step lowers the effective cap
\* on changed files of the next attempt below the cap the first failure left,
\* 0.8 times the static default.
C38_FurtherFailureLowersCap ==
    (AttemptJustFailed /\ hist.allowlist_streak.n = 2 /\ step_idx = call.step_idx)
       => apply_step_limits_overrides(policy, Steps[step_idx]).max_changed_files
             < (Steps[step_idx].max_changed_files * 8) \div 10

\* C39: a run that has ended with exit code 3 has not invoked the agent: the
\* code stands for a precondition that failed before the first invocation.
C39_PreconditionExitOnlyBeforeAgent ==
    (RunEnded /\ exit_code = CODE_PRECONDITION) => ~invoked

\* C40: when the prompt tuner ran and was not ok, the run ends without a
\* regression execution, with the baseline as final result, and with every
\* prompt and skill file the tuner changed at its content from before the
\* tuner.
C40_FailedTunerLeavesLibrary ==
    (pc = "done" /\ tuner.ran /\ ~tuner.ok) =>
        /\ ~tuner.regression_ran
        /\ final = baseline
        /\ \A p \in lock_protected(tuner.changed) : wt[p] = tuner.pre[p]

====
